---- MODULE Spec2Model ----
(***************************************************************************)
(* A model of the ascii-doc-validator service: the rule engine that turns  *)
(* validator issues into a report and a status, the structural validator   *)
(* of AsciiDoc text, the matcher of code against documentation and the     *)
(* project-level resolver of documents for code files.                     *)
(*                                                                         *)
(* Each part of the service is a group of variables with its own           *)
(* specification; a specification leaves the other groups idle.            *)
(***************************************************************************)
EXTENDS Integers, Sequences, FiniteSets, TLC

VARIABLES
    allIssues,      \* ValidationRuleEngine.validate: the validator's issue list
    report,         \* the ValidationReport returned, or NoReport
    content,        \* SyntaxValidator: the lines of the text under validation
    syntaxIssues,   \* SyntaxValidator: the issues returned
    validated,      \* SyntaxValidator: whether the validator has returned
    codeFile,       \* _find_matching_doc: the code file
    docStructures,  \* _find_matching_doc: doc_structures, in the dict's order
    found,          \* _find_matching_doc: the result, or Unresolved
    request,        \* the controller's endpoint that was called
    matcherIssues,  \* validate-with-code: the issues the matcher returned
    codeStructures, \* validate-project: code_structures, in the dict's order
    fileIssues,     \* validate-project: what _match_file returns for each code file
    funcDef,        \* the ast of a Python function
    docParameters,  \* the parameters a document gives for it
    methodInfo,     \* _parse_function: the MethodInfo, or NoMethod
    paramIssues,    \* match_parameters: the issues
    paramsMatched,  \* match_parameters has returned
    codeStructure,  \* match_api_endpoints: code_structure
    docLines,       \* the lines of the document, if doc_structure was parsed
    docStructure,   \* match_api_endpoints: doc_structure
    apiIssues,      \* match_api_endpoints: the issues
    apiMatched,     \* match_api_endpoints has returned
    asciidoctor,    \* the asciidoctor program of the environment
    checked_urls,   \* SyntaxValidator.checked_urls of the shared rule engine
    parsedDoc,      \* the parsed document that is validated again and again
    lastValidated,  \* whose report the last validate returned
    cleanRuns,      \* how often validate found no issue in parsedDoc
    network,        \* what requests.head answered, for each URL, during the last validate
    scanner,        \* analyze_directory: of SourceCodeAnalyzer or of one language's analyzer
    recursive,      \* analyze_directory: the flag recursive
    scanFiles,      \* the files of the directory, in the order of the walk
    cursor,         \* how many of them the loop has passed
    scanResult,     \* analyze_directory: the paths that have a structure in result
    scanState,      \* analyze_directory: running, returned or raised
    cards,          \* smart-cards: the ids of the rows of the table cards
    card_seq,       \* smart-cards: the last id AUTOINCREMENT gave out
    cardsBefore,    \* smart-cards: the rows before the last request
    cardResponse,   \* smart-cards: the last request and the response to it
    namedDoc,       \* _extract_class_name: doc_structure, its texts as words
    extractedName,  \* _extract_class_name: what it returned, once it has
    sectionList,    \* _extract_doc_methods: doc_structure's sections
    candidates,     \* _extract_doc_methods: candidate_sections, once they are formed
    candidatesFormed,\* _extract_doc_methods has formed candidate_sections
    blockLines,     \* _extract_blocks: content.splitlines()
    blocks,         \* _extract_blocks: blocks, once it has returned
    blocksExtracted,\* _extract_blocks has returned
    tableLines,     \* _validate_tables: lines
    tableIssues,    \* _validate_tables: issues, once it has returned
    tablesValidated,\* _validate_tables has returned
    linkLines,      \* _validate_links: content.splitlines()
    linkIssues,     \* _validate_links: the issues of the internal links, once it has returned
    linksValidated, \* _validate_links has returned
    listLines,      \* _validate_lists: lines
    listIssues,     \* _validate_lists: issues, once it has returned
    listsValidated, \* _validate_lists has returned
    simCode,        \* _find_doc_by_content_similarity: code_structure
    simDocs,        \* _find_doc_by_content_similarity: doc_structures, in the dict's order
    best,           \* _find_doc_by_content_similarity: the result, once it has returned
    construct,      \* whose lines are inferred: a Java method, a Java class or a Python function
    spanLines,      \* source_lines
    spanStart,      \* line_start: position.line, or lineno
    endLineno,      \* func.end_lineno, or 0 where the ast has none
    spanEnd,        \* line_end, once the construct is parsed
    spanParsed,     \* the construct is parsed
    upload,         \* the lines of the uploaded file of POST /validate
    parser_checked_urls,\* checked_urls of the syntax validator of doc_parser
    parserNetwork,  \* what the network answered while validate_syntax ran
    uploadResponse, \* the response of validate_documentation
    producer,       \* self.producer is set: the producer is connected
    writable,       \* the ACL of the topic has WRITE for the service
    message_is_dict,\* isinstance(message, dict)
    max_retries,    \* the argument max_retries of send_message
    retries,        \* the local retries of send_message
    metrics,        \* self._metrics
    acknowledged,   \* the sends of the message that the broker acknowledged
    delivered,      \* the copies of the message in the topic
    sendState       \* where the call of send_message is: called, loop, returned, or the exception it raised

None == "None"

(***************************************************************************)
(* Bounds of the model.                                                    *)
(***************************************************************************)
MaxIssues == 3
MaxLines == 4
MaxLevel == 3
MaxDocs == 2
MaxCodeFiles == 2
MaxMatcherIssues == 2
MaxFileIssues == 1
MaxArgs == 2
MaxDocParams == 2
MaxEndpoints == 2
MaxSections == 2
MaxEngineLines == 2
MaxCleanRuns == 2
MaxFiles == 2
MaxCards == 4
MaxNamedSections == 2
MaxChildSections == 3
MaxBlockLines == 4
MaxDelimiterLen == 5
MaxTableLines == 4
MaxCells == 2
MaxLinkLines == 3
MaxListLines == 4
MaxSimDocs == 3
MaxSpanLines == 3
MaxIndent == 1
MaxUploadLines == 3
MaxRetries == 3

(***************************************************************************)
(* Constants of the program.                                               *)
(***************************************************************************)
DelimiterLen == 4

(***************************************************************************)
(* models/validation_report.py                                             *)
(***************************************************************************)
IssueType == {"SYNTAX", "SEMANTIC", "COMPLETENESS", "QUALITY"}

ValidationStatus ==
    {"VALID", "VALID_WITH_WARNINGS", "INVALID", "PARTIALLY_CORRECTED", "FULLY_CORRECTED"}

\* A ValidationIssue: its id (the rule's prefix and the number appended to it),
\* its type, whether corrected_content is attached, and the names its text
\* (the field issue) quotes.
IssueAbout(prefix, k, type, text) ==
    [id |-> <<prefix, k>>, type |-> type, corrected |-> FALSE, issue |-> text]

Issue(prefix, k, type) == IssueAbout(prefix, k, type, <<>>)

\* The issues a validator may hand to the rule engine, whatever the rule.
ValidationIssue ==
    [id : {<<"ISSUE", 0>>}, type : IssueType, corrected : BOOLEAN, issue : {<<>>}]

ValidationSummary(total, corrected) ==
    [total_issues |-> total, corrected_issues |-> corrected, skipped_issues |-> 0]

\* No report yet: validate has not returned.
NoReport ==
    [issues |-> <<>>, corrections |-> <<>>, summary |-> ValidationSummary(0, 0),
     status |-> None]

Returned(r) == r.status # None

SeqsUpTo(S, n) == UNION {[1..k -> S] : k \in 0..n}

(***************************************************************************)
(* services/validation_rule_engine.py                                      *)
(***************************************************************************)
\* A plausible slip: the all-corrected test placed before the warnings test.
DeriveStatusCorrectedFirst(all, issues, corrections) ==
    IF Len(all) = 0 THEN "VALID"
    ELSE IF Len(corrections) = Len(all) THEN "FULLY_CORRECTED"
    ELSE IF \A i \in DOMAIN issues : issues[i].type # "SYNTAX" THEN "VALID_WITH_WARNINGS"
    ELSE IF Len(corrections) > 0 THEN "PARTIALLY_CORRECTED"
    ELSE "INVALID"

\* validate, lines 119-129: the if/elif chain that picks the status.
DeriveStatus(all, issues, corrections) ==
    IF Len(all) = 0 THEN "VALID"
    ELSE IF \A i \in DOMAIN issues : issues[i].type # "SYNTAX" THEN "VALID_WITH_WARNINGS"
    ELSE IF Len(corrections) = Len(all) THEN "FULLY_CORRECTED"
    ELSE IF Len(corrections) > 0 THEN "PARTIALLY_CORRECTED"
    ELSE "INVALID"

IsCorrected(issue) == issue.corrected

IsUncorrected(issue) == ~issue.corrected

\* validate, lines 99-142, from the list of issues the validators returned.
Validate(all) ==
    LET issues == SelectSeq(all, IsUncorrected)
        corrections == SelectSeq(all, IsCorrected)
    IN  [issues      |-> issues,
         corrections |-> corrections,
         summary     |-> ValidationSummary(Len(all), Len(corrections)),
         status      |-> DeriveStatus(all, issues, corrections)]

(***************************************************************************)
(* Lines of AsciiDoc text.  A line is kept as what the validator's and the *)
(* parser's tests (startswith, the heading pattern, equality of whole      *)
(* lines) can tell about it:                                               *)
(*   text     a line of prose                                              *)
(*   blank    the empty line                                               *)
(*   heading  n '=' signs, white space, then txt; txt = "" is a title of   *)
(*            white space only, which the heading pattern accepts          *)
(*   eqrun    n '=' signs and nothing else                                 *)
(*   eqsp     n '=' signs and one space                                    *)
(*   delim    n >= 4 marker characters txt and nothing else                *)
(*   url      prose with the external link txt in it                       *)
(***************************************************************************)
MkLine(kind, n, txt) == [kind |-> kind, n |-> n, txt |-> txt]

TextLine == MkLine("text", 0, "x")

BlankLine == MkLine("blank", 0, "")

Heading(n, title) == MkLine("heading", n, title)

UrlLine(url) == MkLine("url", 0, url)

\* The value of block_delimiter while no block is open: the empty string.
NoLine == BlankLine

\* line.startswith("=")
StartsWithEq(line) == line.kind \in {"heading", "eqrun", "eqsp"}

\* re.match(r"^(=+)\s+(.+)$", line)
HeaderMatch(line) == line.kind = "heading"

\* line.startswith("----") or "...." or "====" or "++++" or "****" or "____"
StartsWithDelimiter(line) ==
    \/ line.kind = "delim" /\ line.n >= DelimiterLen
    \/ line.kind \in {"heading", "eqrun", "eqsp"} /\ line.n >= DelimiterLen

(***************************************************************************)
(* services/validators/syntax_validator.py                                 *)
(***************************************************************************)
SyntaxIssue(prefix, lineNo) == Issue(prefix, lineNo, "SYNTAX")

\* A plausible slip: a level skip is reported in both directions.
HeaderLevelSkipEitherWay(level, current_level) ==
    /\ current_level > 0
    /\ (level > current_level + 1 \/ current_level > level + 1)

\* _validate_headers, line 218: the test for a skipped heading level.
HeaderLevelSkip(level, current_level) ==
    level > current_level + 1 /\ current_level > 0

\* _validate_headers, lines 208-252: the loop, from line i on.
RECURSIVE HeadersFrom(_, _, _)
HeadersFrom(lines, i, current_level) ==
    IF i > Len(lines) THEN <<>>
    ELSE LET line == lines[i] IN
         IF ~StartsWithEq(line) THEN HeadersFrom(lines, i + 1, current_level)
         ELSE IF HeaderMatch(line)
         THEN (IF HeaderLevelSkip(line.n, current_level)
               THEN <<SyntaxIssue("SYNTAX-HEADER-LEVEL", i)>> ELSE <<>>)
              \o (IF line.txt = ""
                  THEN <<SyntaxIssue("SYNTAX-HEADER-EMPTY", i)>> ELSE <<>>)
              \o HeadersFrom(lines, i + 1, line.n)
         ELSE <<SyntaxIssue("SYNTAX-HEADER-FORMAT", i)>>
              \o HeadersFrom(lines, i + 1, current_level)

ValidateHeaders(lines) == HeadersFrom(lines, 1, 0)

\* _validate_code_blocks, lines 277-313: the loop, from line i on, and the
\* test for a block left open after it.
RECURSIVE CodeBlocksFrom(_, _, _, _, _)
CodeBlocksFrom(lines, i, in_block, block_start_line, block_delimiter) ==
    IF i > Len(lines)
    THEN IF in_block
         THEN <<SyntaxIssue("SYNTAX-CODE-BLOCK-UNCLOSED", block_start_line)>>
         ELSE <<>>
    ELSE LET line == lines[i] IN
         IF StartsWithDelimiter(line)
         THEN IF in_block
              THEN <<SyntaxIssue("SYNTAX-CODE-BLOCK-NESTED", i)>>
                   \o CodeBlocksFrom(lines, i + 1, in_block, block_start_line,
                                     block_delimiter)
              ELSE CodeBlocksFrom(lines, i + 1, TRUE, i, line)
         ELSE IF in_block /\ line = block_delimiter
         THEN CodeBlocksFrom(lines, i + 1, FALSE, block_start_line, NoLine)
         ELSE CodeBlocksFrom(lines, i + 1, in_block, block_start_line,
                             block_delimiter)

ValidateCodeBlocks(lines) == CodeBlocksFrom(lines, 1, FALSE, 0, NoLine)

\* _validate_structure, lines 170-189: the headings, then the blocks.  The
\* checks of lists and tables that follow find nothing in lines of the kinds
\* above: none has a list marker followed by white space, none starts with "|".
ValidateStructure(lines) == ValidateHeaders(lines) \o ValidateCodeBlocks(lines)

(***************************************************************************)
(* services/project_code_documentation_matcher.py: the resolver of the     *)
(* document of a code file.                                                *)
(*                                                                         *)
(* A code file is what the resolver reads of it: the language its          *)
(* extension names (lang), its base name without the extension (base),     *)
(* the names of its classes in order (classes) and the names of its        *)
(* methods and functions (methods).                                        *)
(* A document is its pre-tagged language (detected_language), its file     *)
(* name as a language prefix and the rest (prefix, base), the class its    *)
(* title names (title_class), the first class a section's content names    *)
(* (content_class), and the method names its section titles give           *)
(* (methods).                                                              *)
(***************************************************************************)
\* str.lower() on the names of the model.
Lower(name) ==
    CASE name = "Foo" -> "foo"
      [] name = "Bar" -> "bar"
      [] name = "Other" -> "other"
      [] OTHER -> name

\* _get_primary_class_name, lines 217-219.
GetPrimaryClassName(code) ==
    IF Len(code.classes) > 0 THEN code.classes[1] ELSE None

\* _extract_class_name, lines 875-892: the title first, then the sections.
ExtractClassName(doc) ==
    IF doc.title_class # None THEN doc.title_class ELSE doc.content_class

\* _detect_doc_language_from_structure, lines 617-635: the pre-tagged language,
\* then the markers in the file name.
DetectDocLanguageFromStructure(doc) ==
    IF doc.detected_language # None THEN doc.detected_language
    ELSE IF doc.prefix = "java_" THEN "JAVA"
    ELSE IF doc.prefix = "py_" THEN "PYTHON"
    ELSE None

\* A plausible slip: the language check dropped.
IsLanguageCompatibleAlways(code, doc) == TRUE

\* _is_language_compatible, lines 498-528.
IsLanguageCompatible(code, doc) ==
    IF code.lang = None THEN TRUE
    ELSE IF DetectDocLanguageFromStructure(doc) = None THEN TRUE
    ELSE code.lang = DetectDocLanguageFromStructure(doc)

\* _clean_filename_prefix, lines 556-582: the language prefix is cut off.
CleanFilenamePrefix(doc) == doc.base

\* _find_doc_by_content_similarity, lines 736-747.
CodeIdentifiers(code) ==
    {Lower(code.classes[k]) : k \in DOMAIN code.classes}
    \cup {Lower(m) : m \in code.methods}

\* _extract_identifiers_from_doc, lines 806-856.
ExtractIdentifiersFromDoc(doc) ==
    (IF doc.title_class # None THEN {Lower(doc.title_class)} ELSE {})
    \cup {Lower(m) : m \in doc.methods}

\* A plausible slip: a later document of the same score replaces the best.
RECURSIVE SimilarityFromLastWins(_, _, _, _, _)
SimilarityFromLastWins(code, docs, k, best_match, best_score) ==
    IF k > Len(docs) THEN best_match
    ELSE LET doc_language == DetectDocLanguageFromStructure(docs[k])
             score == Cardinality(CodeIdentifiers(code)
                                  \cap ExtractIdentifiersFromDoc(docs[k]))
         IN  IF doc_language # None /\ doc_language # code.lang
             THEN SimilarityFromLastWins(code, docs, k + 1, best_match, best_score)
             ELSE IF score >= best_score /\ score > 0
             THEN SimilarityFromLastWins(code, docs, k + 1, k, score)
             ELSE SimilarityFromLastWins(code, docs, k + 1, best_match, best_score)

\* _find_doc_by_content_similarity, lines 752-779: the loop over the documents
\* from document k on, with the best match so far.
RECURSIVE SimilarityFrom(_, _, _, _, _)
SimilarityFrom(code, docs, k, best_match, best_score) ==
    IF k > Len(docs) THEN best_match
    ELSE LET doc_language == DetectDocLanguageFromStructure(docs[k])
             score == Cardinality(CodeIdentifiers(code)
                                  \cap ExtractIdentifiersFromDoc(docs[k]))
         IN  IF doc_language # None /\ doc_language # code.lang
             THEN SimilarityFrom(code, docs, k + 1, best_match, best_score)
             ELSE IF score > best_score /\ score > 0
             THEN SimilarityFrom(code, docs, k + 1, k, score)
             ELSE SimilarityFrom(code, docs, k + 1, best_match, best_score)

FindDocByContentSimilarity(code, docs) == SimilarityFrom(code, docs, 1, 0, 0)

\* _find_matching_doc, lines 333-360: the documents Stage 1 accepts.
Stage1Docs(code, docs) ==
    {k \in DOMAIN docs :
        /\ ExtractClassName(docs[k]) # None
        /\ ExtractClassName(docs[k]) = GetPrimaryClassName(code)
        /\ IsLanguageCompatible(code, docs[k])}

\* _find_matching_doc, lines 368-397: the documents Stage 2 accepts.
Stage2Docs(code, docs) ==
    {k \in DOMAIN docs :
        /\ IsLanguageCompatible(code, docs[k])
        /\ Lower(CleanFilenamePrefix(docs[k])) = Lower(code.base)}

Min(S) == CHOOSE x \in S : \A y \in S : x <= y

Found(stage, k) == [stage |-> stage, doc |-> k]

NotFound == Found(0, 0)

\* A plausible slip: the file name tried before the class name.
FindMatchingDocNameFirst(code, docs) ==
    IF Stage2Docs(code, docs) # {}
    THEN Found(2, Min(Stage2Docs(code, docs)))
    ELSE IF GetPrimaryClassName(code) # None /\ Stage1Docs(code, docs) # {}
    THEN Found(1, Min(Stage1Docs(code, docs)))
    ELSE IF code.lang # None /\ FindDocByContentSimilarity(code, docs) # 0
    THEN Found(3, FindDocByContentSimilarity(code, docs))
    ELSE NotFound

\* _find_matching_doc, lines 329-432: the stage that found the document and the
\* place of the document among doc_structures, or NotFound.
FindMatchingDoc(code, docs) ==
    IF GetPrimaryClassName(code) # None /\ Stage1Docs(code, docs) # {}
    THEN Found(1, Min(Stage1Docs(code, docs)))
    ELSE IF Stage2Docs(code, docs) # {}
    THEN Found(2, Min(Stage2Docs(code, docs)))
    ELSE IF code.lang # None /\ FindDocByContentSimilarity(code, docs) # 0
    THEN Found(3, FindDocByContentSimilarity(code, docs))
    ELSE NotFound

(***************************************************************************)
(* A Python dict, in insertion order: a sequence of keys with their        *)
(* values; assigning to a key that is present replaces its value in place. *)
(***************************************************************************)
DictKeys(dict) == {dict[i].key : i \in DOMAIN dict}

DictGet(dict, key) == dict[CHOOSE i \in DOMAIN dict : dict[i].key = key].value

DictPut(dict, key, value) ==
    IF key \in DictKeys(dict)
    THEN [i \in DOMAIN dict |->
             IF dict[i].key = key THEN [key |-> key, value |-> value] ELSE dict[i]]
    ELSE Append(dict, [key |-> key, value |-> value])

RECURSIVE DictFrom(_, _, _)
DictFrom(items, i, dict) ==
    IF i > Len(items) THEN dict
    ELSE DictFrom(items, i + 1, DictPut(dict, items[i].key, items[i].value))

DictOf(items) == DictFrom(items, 1, <<>>)

(***************************************************************************)
(* services/analyzers/python_analyzer.py: the parameters of a function,    *)
(* from its ast.  A function is its name, func.args.args (each argument    *)
(* with its annotation), the length of func.args.defaults and is_method.   *)
(***************************************************************************)
NoAnnotation == [kind |-> "None", id |-> "", attr |-> ""]

AstName(id) == [kind |-> "Name", id |-> id, attr |-> ""]

AstAttribute(id, attr) == [kind |-> "Attribute", id |-> id, attr |-> attr]

AstSubscript(id) == [kind |-> "Subscript", id |-> id, attr |-> ""]

\* _parse_function, lines 260-269.
ParamType(annotation) ==
    CASE annotation.kind = "Name" -> annotation.id
      [] annotation.kind = "Attribute" -> annotation.id \o "." \o annotation.attr
      [] annotation.kind = "Subscript" -> annotation.id
      [] OTHER -> None

\* A plausible slip: the default values are not looked at.
ParamRequiredAlways(func, i) == TRUE

\* _parse_function, lines 271-279: the i-th argument is required unless one
\* of the trailing defaults is its own.
ParamRequired(func, i) ==
    ~(func.defaults > 0 /\ Len(func.args) - i < func.defaults)

\* _parse_function, lines 253-299.
RECURSIVE ParametersFrom(_, _, _)
ParametersFrom(func, i, parameters) ==
    IF i > Len(func.args) THEN parameters
    ELSE IF func.is_method /\ func.args[i].arg \in {"self", "cls"}
    THEN ParametersFrom(func, i + 1, parameters)
    ELSE ParametersFrom(func, i + 1,
             Append(parameters,
                    [name     |-> func.args[i].arg,
                     type     |-> ParamType(func.args[i].annotation),
                     required |-> ParamRequired(func, i)]))

\* _parse_function: the MethodInfo, as far as the matcher reads it.
ParseFunction(func) ==
    [name |-> func.name, parameters |-> ParametersFrom(func, 1, <<>>)]

(***************************************************************************)
(* services/code_documentation_matcher.py                                  *)
(***************************************************************************)
ByName(params) ==
    DictOf([i \in DOMAIN params |-> [key |-> params[i].name, value |-> params[i]]])

\* match_parameters, lines 251-289: one parameter of the method.
MatchMethodParam(method, param_info, doc_params, issues) ==
    IF param_info.name \notin DictKeys(doc_params)
    THEN Append(issues, IssueAbout("COMPLETENESS-PARAM-001", Len(issues) + 1,
                                   "COMPLETENESS", <<param_info.name, method.name>>))
    ELSE LET doc_param == DictGet(doc_params, param_info.name)
             typed ==
                 IF /\ param_info.type # None
                    /\ doc_param.type # None
                    /\ param_info.type # doc_param.type
                 THEN Append(issues,
                          IssueAbout("SEMANTIC-PARAM-001", Len(issues) + 1,
                                     "SEMANTIC", <<param_info.name, method.name>>))
                 ELSE issues
         IN  IF param_info.required # doc_param.required
             THEN Append(typed,
                      IssueAbout("SEMANTIC-PARAM-002", Len(typed) + 1,
                                 "SEMANTIC", <<param_info.name, method.name>>))
             ELSE typed

RECURSIVE MethodParamsFrom(_, _, _, _, _)
MethodParamsFrom(method, method_params, doc_params, i, issues) ==
    IF i > Len(method_params) THEN issues
    ELSE MethodParamsFrom(method, method_params, doc_params, i + 1,
             MatchMethodParam(method, method_params[i].value, doc_params, issues))

\* match_parameters, lines 292-305: the documented parameters the code lacks.
RECURSIVE DocParamsFrom(_, _, _, _, _)
DocParamsFrom(method, method_params, doc_params, i, issues) ==
    IF i > Len(doc_params) THEN issues
    ELSE IF doc_params[i].key \notin DictKeys(method_params)
    THEN DocParamsFrom(method, method_params, doc_params, i + 1,
             Append(issues, IssueAbout("SEMANTIC-PARAM-003", Len(issues) + 1,
                                       "SEMANTIC", <<doc_params[i].key, method.name>>)))
    ELSE DocParamsFrom(method, method_params, doc_params, i + 1, issues)

\* match_parameters, lines 224-307.
MatchParameters(method, doc_parameters) ==
    LET method_params == ByName(method.parameters)
        doc_params == ByName(doc_parameters)
    IN  DocParamsFrom(method, method_params, doc_params, 1,
            MethodParamsFrom(method, method_params, doc_params, 1, <<>>))

\* _extract_code_endpoints, lines 346 and 358: endpoints[full_path] = {...}
PutEndpoint(endpoints, full_path, info) == DictPut(endpoints, full_path, info)

EndpointInfo(method) == [http_method |-> method.http_method, method |-> method]

\* _extract_code_endpoints, lines 331-337: the base path of a controller, from
\* its annotations; .strip('"') takes the quotes off the value.
Strip(value) == value.text

RECURSIVE BasePathFrom(_, _, _)
BasePathFrom(annotations, i, base_path) ==
    IF i > Len(annotations) THEN base_path
    ELSE LET ann == annotations[i]
         IN  IF /\ ann.name \in {"RequestMapping", "Controller", "RestController"}
                /\ ann.parameters # <<>>
             THEN IF "value" \in DictKeys(ann.parameters)
                  THEN BasePathFrom(annotations, i + 1,
                                    Strip(DictGet(ann.parameters, "value")))
                  ELSE IF "path" \in DictKeys(ann.parameters)
                  THEN BasePathFrom(annotations, i + 1,
                                    Strip(DictGet(ann.parameters, "path")))
                  ELSE BasePathFrom(annotations, i + 1, base_path)
             ELSE BasePathFrom(annotations, i + 1, base_path)

\* _extract_code_endpoints, lines 340-353: the methods of one controller.
RECURSIVE MethodEndpointsFrom(_, _, _, _)
MethodEndpointsFrom(methods, base_path, i, endpoints) ==
    IF i > Len(methods) THEN endpoints
    ELSE IF methods[i].is_api_endpoint /\ methods[i].path \notin {None, ""}
    THEN MethodEndpointsFrom(methods, base_path, i + 1,
             PutEndpoint(endpoints,
                         IF base_path # "" THEN base_path \o methods[i].path
                         ELSE methods[i].path,
                         EndpointInfo(methods[i])))
    ELSE MethodEndpointsFrom(methods, base_path, i + 1, endpoints)

\* _extract_code_endpoints, lines 326-353: the loop over the classes.
RECURSIVE ClassEndpointsFrom(_, _, _)
ClassEndpointsFrom(classes, c, endpoints) ==
    IF c > Len(classes) THEN endpoints
    ELSE IF classes[c].is_controller
    THEN ClassEndpointsFrom(classes, c + 1,
             MethodEndpointsFrom(classes[c].methods,
                                 BasePathFrom(classes[c].annotations, 1, ""),
                                 1, endpoints))
    ELSE ClassEndpointsFrom(classes, c + 1, endpoints)

\* _extract_code_endpoints, lines 309-366: the controllers' methods, then the
\* top-level functions, which have no base path.
ExtractCodeEndpoints(code) ==
    MethodEndpointsFrom(code.functions, "", 1,
                        ClassEndpointsFrom(code.classes, 1, <<>>))

\* "GET" in title.upper(), and so on: the verbs a title mentions.
TitleMentions(title) ==
    CASE title = "GET /users/{id}" -> {"GET"}
      [] title = "POST /users" -> {"POST"}
      [] title = "Get or post users" -> {"GET", "POST"}
      [] OTHER -> {}

\* _extract_doc_endpoints, lines 393-403.
TitleHttpMethod(title) ==
    IF "GET" \in TitleMentions(title) THEN "GET"
    ELSE IF "POST" \in TitleMentions(title) THEN "POST"
    ELSE IF "PUT" \in TitleMentions(title) THEN "PUT"
    ELSE IF "DELETE" \in TitleMentions(title) THEN "DELETE"
    ELSE IF "PATCH" \in TitleMentions(title) THEN "PATCH"
    ELSE None

\* section.get("path") or section.get("url")
SectionPath(section) ==
    IF "path" \in DOMAIN section /\ section.path \notin {None, ""}
    THEN section.path
    ELSE IF "url" \in DOMAIN section THEN section.url
    ELSE None

\* _extract_doc_endpoints, lines 406-418: the parameters of the subsections
\* whose title has the word parameters.
RECURSIVE SubsectionParamsFrom(_, _, _)
SubsectionParamsFrom(subsections, i, parameters) ==
    IF i > Len(subsections) THEN parameters
    ELSE IF subsections[i].title = "Parameters"
    THEN SubsectionParamsFrom(subsections, i + 1, parameters \o subsections[i].params)
    ELSE SubsectionParamsFrom(subsections, i + 1, parameters)

SectionParameters(section) ==
    IF "subsections" \in DOMAIN section
    THEN SubsectionParamsFrom(section.subsections, 1, <<>>)
    ELSE <<>>

\* _extract_doc_endpoints, lines 368-427: only a section that has the key
\* path or the key url describes an endpoint.
RECURSIVE DocEndpointsFrom(_, _, _)
DocEndpointsFrom(sections, i, endpoints) ==
    IF i > Len(sections) THEN endpoints
    ELSE IF /\ "path" \in DOMAIN sections[i] \/ "url" \in DOMAIN sections[i]
            /\ SectionPath(sections[i]) \notin {None, ""}
    THEN DocEndpointsFrom(sections, i + 1,
             DictPut(endpoints, SectionPath(sections[i]),
                     [http_method |-> TitleHttpMethod(sections[i].title),
                      section     |-> sections[i].title,
                      parameters  |-> SectionParameters(sections[i])]))
    ELSE DocEndpointsFrom(sections, i + 1, endpoints)

ExtractDocEndpoints(doc) == DocEndpointsFrom(doc.sections, 1, <<>>)

\* match_api_endpoints, lines 92-122: one endpoint of the code.
MatchCodeEndpoint(endpoint_path, endpoint_info, doc_endpoints, issues) ==
    IF endpoint_path \notin DictKeys(doc_endpoints)
    THEN Append(issues,
             IssueAbout("SEMANTIC-API-001", Len(issues) + 1, "SEMANTIC",
                        <<endpoint_path, endpoint_info.http_method>>))
    ELSE LET doc_endpoint == DictGet(doc_endpoints, endpoint_path)
             verbs ==
                 IF endpoint_info.http_method # doc_endpoint.http_method
                 THEN Append(issues,
                          IssueAbout("SEMANTIC-API-002", Len(issues) + 1, "SEMANTIC",
                                     <<endpoint_path, endpoint_info.http_method>>))
                 ELSE issues
         IN  verbs \o MatchParameters(endpoint_info.method, doc_endpoint.parameters)

RECURSIVE CodeEndpointsFrom(_, _, _, _)
CodeEndpointsFrom(code_endpoints, doc_endpoints, i, issues) ==
    IF i > Len(code_endpoints) THEN issues
    ELSE CodeEndpointsFrom(code_endpoints, doc_endpoints, i + 1,
             MatchCodeEndpoint(code_endpoints[i].key, code_endpoints[i].value,
                               doc_endpoints, issues))

\* match_api_endpoints, lines 125-138: the documented endpoints the code lacks.
RECURSIVE MissingEndpointsFrom(_, _, _, _)
MissingEndpointsFrom(code_endpoints, doc_endpoints, i, issues) ==
    IF i > Len(doc_endpoints) THEN issues
    ELSE IF doc_endpoints[i].key \notin DictKeys(code_endpoints)
    THEN MissingEndpointsFrom(code_endpoints, doc_endpoints, i + 1,
             Append(issues,
                    IssueAbout("SEMANTIC-API-003", Len(issues) + 1, "SEMANTIC",
                               <<doc_endpoints[i].key, doc_endpoints[i].value.http_method>>)))
    ELSE MissingEndpointsFrom(code_endpoints, doc_endpoints, i + 1, issues)

\* match_api_endpoints, lines 65-140.
MatchApiEndpoints(code, doc) ==
    LET code_endpoints == ExtractCodeEndpoints(code)
        doc_endpoints == ExtractDocEndpoints(doc)
    IN  MissingEndpointsFrom(code_endpoints, doc_endpoints, 1,
            CodeEndpointsFrom(code_endpoints, doc_endpoints, 1, <<>>))

(***************************************************************************)
(* services/documentation_parser.py: _parse_asciidoc.  A section is its    *)
(* title, its level, its content lines and its line number; the parser     *)
(* gives a section no other key that a matcher reads.                      *)
(***************************************************************************)
\* _extract_title, lines 204-208: the first line that starts with "= ".
RECURSIVE ExtractTitleFrom(_, _)
ExtractTitleFrom(lines, i) ==
    IF i > Len(lines) THEN None
    ELSE IF lines[i].kind \in {"heading", "eqsp"} /\ lines[i].n = 1
    THEN lines[i].txt
    ELSE ExtractTitleFrom(lines, i + 1)

\* _parse_asciidoc, lines 108-113: line.lstrip('= ').strip()
SectionTitle(line) == IF line.kind = "heading" THEN line.txt ELSE ""

\* _parse_asciidoc, lines 101-126: a line that starts with '=' opens a
\* section, any other line goes to the content of the open section.
RECURSIVE SectionsFrom(_, _, _)
SectionsFrom(lines, i, sections) ==
    IF i > Len(lines) THEN sections
    ELSE IF StartsWithEq(lines[i])
    THEN SectionsFrom(lines, i + 1,
             Append(sections,
                    [title       |-> SectionTitle(lines[i]),
                     level       |-> lines[i].n,
                     content     |-> <<>>,
                     line_number |-> i]))
    ELSE IF sections # <<>>
    THEN SectionsFrom(lines, i + 1,
             [sections EXCEPT ![Len(sections)].content = Append(@, lines[i])])
    ELSE SectionsFrom(lines, i + 1, sections)

\* _parse_asciidoc, lines 70-140.
ParseAsciidoc(lines) ==
    [sections |-> SectionsFrom(lines, 1, <<>>),
     meta     |-> [title |-> ExtractTitleFrom(lines, 1)]]

(***************************************************************************)
(* services/validators/syntax_validator.py: validate, with the asciidoctor *)
(* run and the check of the external links.                                *)
(*                                                                         *)
(* asciidoctor is a program of the environment: it is missing, or it       *)
(* accepts every document (lenient), or it exits with an error that names  *)
(* the opening line of a block that is left open (strict).  Whichever it   *)
(* is, its answer is a function of the content.                            *)
(***************************************************************************)
Asciidoctor == {"missing", "lenient", "strict"}

\* The line at which the block that is open at the end of lines was opened,
\* or 0: a delimiter line opens a block, the same line closes it.
RECURSIVE UnterminatedFrom(_, _, _)
UnterminatedFrom(lines, i, open) ==
    IF i > Len(lines) THEN open
    ELSE IF lines[i].kind # "delim" THEN UnterminatedFrom(lines, i + 1, open)
    ELSE IF open = 0 THEN UnterminatedFrom(lines, i + 1, i)
    ELSE IF lines[i] = lines[open] THEN UnterminatedFrom(lines, i + 1, 0)
    ELSE UnterminatedFrom(lines, i + 1, open)

\* _validate_with_asciidoctor, lines 85-153.
ValidateWithAsciidoctor(lines, program) ==
    IF program = "missing" THEN <<SyntaxIssue("SYNTAX-ENV-001", 0)>>
    ELSE IF program = "strict" /\ UnterminatedFrom(lines, 1, 0) # 0
    THEN <<SyntaxIssue("SYNTAX-ASCIIDOC", UnterminatedFrom(lines, 1, 0))>>
    ELSE <<>>

\* A plausible slip: the memo of the checked URLs is not read.
CheckExternalLinkUncached(url, cache, answers) == answers[url]

\* _check_external_link, lines 531-557: the memo's answer if the URL was
\* checked before, else the answer of the network (an exception is the
\* answer False).
CheckExternalLink(url, cache, answers) ==
    IF url \in DOMAIN cache THEN cache[url] ELSE answers[url]

ExternalUrls(lines) == {lines[i].txt : i \in {j \in DOMAIN lines : lines[j].kind = "url"}}

\* _check_external_link, lines 553 and 556: the memo after the links of
\* lines were checked.
CheckedUrlsAfter(lines, cache, answers) ==
    [url \in DOMAIN cache \cup ExternalUrls(lines) |->
        CheckExternalLink(url, cache, answers)]

\* _validate_links, lines 516-528: an issue for every external link, with its
\* line, that is not reachable; here in the order of the lines.
RECURSIVE ExternalLinksFrom(_, _, _, _, _)
ExternalLinksFrom(lines, i, cache, answers, issues) ==
    IF i > Len(lines) THEN issues
    ELSE IF lines[i].kind = "url" /\ ~CheckExternalLink(lines[i].txt, cache, answers)
    THEN ExternalLinksFrom(lines, i + 1, cache, answers,
             Append(issues, SyntaxIssue("SYNTAX-LINK-EXTERNAL", i)))
    ELSE ExternalLinksFrom(lines, i + 1, cache, answers, issues)

ValidateLinks(lines, cache, answers) == ExternalLinksFrom(lines, 1, cache, answers, <<>>)

\* SyntaxValidator.validate, lines 54-83.
SyntaxValidate(lines, program, cache, answers) ==
    ValidateWithAsciidoctor(lines, program)
        \o ValidateStructure(lines)
        \o ValidateLinks(lines, cache, answers)

(***************************************************************************)
(* services/validation_rule_engine.py: the text validate reads back from   *)
(* the parsed document.                                                    *)
(***************************************************************************)
\* "\n".join(lines).splitlines(): an empty last line is lost.
SplitJoined(lines) ==
    IF lines # <<>> /\ lines[Len(lines)] = BlankLine
    THEN SubSeq(lines, 1, Len(lines) - 1)
    ELSE lines

\* _extract_original_content, line 176: f"{'=' * level} {title}"
SectionHeading(section) ==
    IF section.title = "" THEN MkLine("eqsp", section.level, "")
    ELSE Heading(section.level, section.title)

\* _extract_original_content, lines 171-181.
RECURSIVE SectionLinesFrom(_, _, _)
SectionLinesFrom(sections, k, all_lines) ==
    IF k > Len(sections) THEN all_lines
    ELSE SectionLinesFrom(sections, k + 1,
             Append(all_lines, SectionHeading(sections[k]))
                 \o SplitJoined(sections[k].content))

\* _extract_original_content, lines 144-184: the lines that are joined; no
\* line at all stands for None.
ExtractOriginalContent(parsed_doc) ==
    IF parsed_doc.sections = <<>> THEN <<>>
    ELSE SectionLinesFrom(parsed_doc.sections, 1,
             IF parsed_doc.meta.title \notin {None, ""}
             THEN <<Heading(1, parsed_doc.meta.title), BlankLine>>
             ELSE <<>>)

\* validate, lines 86-100: the issues of the syntax validator on the text
\* read back from parsed_doc.
EngineIssues(parsed_doc, program, cache, answers) ==
    IF ExtractOriginalContent(parsed_doc) # <<>>
    THEN SyntaxValidate(SplitJoined(ExtractOriginalContent(parsed_doc)),
                        program, cache, answers)
    ELSE <<>>

EngineCheckedUrls(parsed_doc, cache, answers) ==
    IF ExtractOriginalContent(parsed_doc) # <<>>
    THEN CheckedUrlsAfter(SplitJoined(ExtractOriginalContent(parsed_doc)), cache, answers)
    ELSE cache

(***************************************************************************)
(* services/project_code_documentation_matcher.py: match_project           *)
(***************************************************************************)
\* _has_matching_code, lines 909-913.
HasMatchingCode(class_name, codes) ==
    \E c \in DOMAIN codes : \E k \in DOMAIN codes[c].classes :
        codes[c].classes[k] = class_name

\* The keys of code_structures and doc_structures: the paths of the files.
CodePath(c) == "src/File" \o ToString(c)

DocPath(k) == "docs/file" \o ToString(k) \o ".adoc"

\* A plausible slip: a code file without a document is passed over.
RECURSIVE MatchCodeFilesSilently(_, _, _, _, _)
MatchCodeFilesSilently(codes, docs, matched, c, issues) ==
    IF c > Len(codes) THEN issues
    ELSE IF FindMatchingDoc(codes[c], docs) # NotFound
    THEN MatchCodeFilesSilently(codes, docs, matched, c + 1, issues \o matched[c])
    ELSE MatchCodeFilesSilently(codes, docs, matched, c + 1, issues)

\* match_project, lines 84-102: the loop over the code files, from file c on,
\* with the issues collected so far; matched[c] is what _match_file returns for
\* file c and its document.
RECURSIVE MatchCodeFilesFrom(_, _, _, _, _)
MatchCodeFilesFrom(codes, docs, matched, c, issues) ==
    IF c > Len(codes) THEN issues
    ELSE IF FindMatchingDoc(codes[c], docs) # NotFound
    THEN MatchCodeFilesFrom(codes, docs, matched, c + 1, issues \o matched[c])
    ELSE MatchCodeFilesFrom(codes, docs, matched, c + 1,
             Append(issues, IssueAbout("COMPLETENESS-FILE-001", Len(issues) + 1,
                                       "COMPLETENESS", <<CodePath(c)>>)))

\* A plausible slip: the classes of the code are not looked at.
RECURSIVE MatchDocsUnseen(_, _, _, _)
MatchDocsUnseen(codes, docs, k, issues) ==
    IF k > Len(docs) THEN issues
    ELSE IF ExtractClassName(docs[k]) # None
    THEN MatchDocsUnseen(codes, docs, k + 1,
             Append(issues, IssueAbout("SEMANTIC-FILE-001", Len(issues) + 1, "SEMANTIC",
                                       <<DocPath(k), ExtractClassName(docs[k])>>)))
    ELSE MatchDocsUnseen(codes, docs, k + 1, issues)

\* match_project, lines 105-113: the loop over the documents, from document k on.
RECURSIVE MatchDocsFrom(_, _, _, _)
MatchDocsFrom(codes, docs, k, issues) ==
    IF k > Len(docs) THEN issues
    ELSE IF /\ ExtractClassName(docs[k]) # None
            /\ ~HasMatchingCode(ExtractClassName(docs[k]), codes)
    THEN MatchDocsFrom(codes, docs, k + 1,
             Append(issues, IssueAbout("SEMANTIC-FILE-001", Len(issues) + 1, "SEMANTIC",
                                       <<DocPath(k), ExtractClassName(docs[k])>>)))
    ELSE MatchDocsFrom(codes, docs, k + 1, issues)

\* match_project, lines 123-128: the status of a project report.
ProjectStatus(issues) ==
    IF issues = <<>> THEN "VALID"
    ELSE IF \A k \in DOMAIN issues :
                issues[k].type # "COMPLETENESS" /\ issues[k].type # "SEMANTIC"
    THEN "VALID_WITH_WARNINGS"
    ELSE "INVALID"

\* match_project, lines 78-141.
MatchProject(codes, docs, matched) ==
    LET issues == MatchDocsFrom(codes, docs, 1,
                      MatchCodeFilesFrom(codes, docs, matched, 1, <<>>))
    IN  [issues      |-> issues,
         corrections |-> <<>>,
         summary     |-> ValidationSummary(Len(issues), 0),
         status      |-> ProjectStatus(issues)]

(***************************************************************************)
(* controllers/validation_controller.py                                    *)
(***************************************************************************)
HasSemantic(issues) == \E k \in DOMAIN issues : issues[k].type = "SEMANTIC"

\* A plausible slip: the status of the standard validation is kept.
WithCodeStatusKept(standard_status, all_issues) == standard_status

\* validate_documentation_with_code, lines 231-233.
WithCodeStatus(standard_status, all_issues) ==
    IF HasSemantic(all_issues) THEN "INVALID" ELSE standard_status

\* A plausible slip: the summary of the standard validation is not updated.
ValidateWithCodeSummaryKept(validator_issues, all_issues) ==
    LET standard_validation == Validate(validator_issues)
    IN  [issues      |-> standard_validation.issues \o all_issues,
         corrections |-> standard_validation.corrections,
         summary     |-> standard_validation.summary,
         status      |-> WithCodeStatus(standard_validation.status, all_issues)]

\* validate_documentation_with_code, lines 219-233: the standard validation of
\* the document, with the matcher's issues added to it.
ValidateWithCode(validator_issues, all_issues) ==
    LET standard_validation == Validate(validator_issues)
    IN  [issues      |-> standard_validation.issues \o all_issues,
         corrections |-> standard_validation.corrections,
         summary     |-> ValidationSummary(
                             standard_validation.summary.total_issues + Len(all_issues),
                             standard_validation.summary.corrected_issues),
         status      |-> WithCodeStatus(standard_validation.status, all_issues)]

(***************************************************************************)
(* services/source_code_analyzer.py and                                    *)
(* services/analyzers/language_specific_analyzer.py: analyze_directory.    *)
(* A file is its extension, whether it lies in a subdirectory, and whether *)
(* analyze_file returns a structure for it or raises.                      *)
(***************************************************************************)
\* analyzer_factory.py, lines 26-32 and 156-176: detect_language_from_file.
DetectLanguageFromFile(file) ==
    CASE file.ext = "java" -> "JAVA"
      [] file.ext = "py" -> "PYTHON"
      [] file.ext = "js" -> "JAVASCRIPT"
      [] file.ext = "ts" -> "TYPESCRIPT"
      [] file.ext = "cs" -> "CSHARP"
      [] OTHER -> None

\* analyzers/__init__.py, lines 24-25: the analyzers the factory has.
RegisteredAnalyzers == {"JAVA", "PYTHON"}

\* The file_extensions of the analyzer of a language.
FileExtensions(language) == IF language = "JAVA" THEN {"java"} ELSE {"py"}

\* Whether the walk reaches the file: all of them if recursive, else those
\* of the directory itself.
Walked(flag, file) == flag \/ ~file.nested

\* Whether analyze_file is called for the file: source_code_analyzer.py,
\* lines 179-182, and language_specific_analyzer.py, lines 168 and 178.
IsAnalyzed(which, flag, file) ==
    /\ Walked(flag, file)
    /\ IF which = "SourceCodeAnalyzer"
       THEN /\ DetectLanguageFromFile(file) # None
            /\ DetectLanguageFromFile(file) \in RegisteredAnalyzers
       ELSE file.ext \in FileExtensions(which)

\* A plausible slip: the exception of analyze_file is not caught.
AnalyzeFileRaisedUncaught(result) == [result |-> result, state |-> "raised"]

\* except Exception: the error is printed and the loop goes on.
AnalyzeFileRaised(result) == [result |-> result, state |-> "running"]

\* One round of the loop over the files: the file at path.
ScanFile(which, flag, file, path, result) ==
    IF ~IsAnalyzed(which, flag, file) THEN [result |-> result, state |-> "running"]
    ELSE IF file.parses THEN [result |-> result \cup {path}, state |-> "running"]
    ELSE AnalyzeFileRaised(result)

(***************************************************************************)
(* smart-cards: app/db/repositories.py, app/core/services.py and            *)
(* app/api/routes.py.  A call either returns a value or raises an           *)
(* exception; an HTTPException carries a status code.                       *)
(***************************************************************************)
Return(value) == [kind |-> "return", value |-> value, exc |-> None, status_code |-> 0]

Raise(exc, status_code) ==
    [kind |-> "raise", value |-> None, exc |-> exc, status_code |-> status_code]

\* Both exceptions of the deletion are subclasses of Exception, so that
\* "except Exception" catches either; "except HTTPException" only the one.
IsInstance(exc, class) == class = "Exception" \/ exc = class

\* CardRepository.delete, lines 173-194: the rows after DELETE ... WHERE id = ?,
\* and cursor.rowcount > 0, unless sqlite raises.
DeletedRows(rows, card_id, db_error) == IF db_error THEN rows ELSE rows \ {card_id}

CardRepositoryDelete(rows, card_id, db_error) ==
    IF db_error THEN Raise("sqlite3.Error", 0)
    ELSE Return(Cardinality(rows \cap {card_id}) > 0)

\* CardService.delete_card, lines 89-100: the body of the try raises the
\* HTTPException 404 inside the try, and the handler "except Exception"
\* replaces whatever the body raised by an HTTPException 500.
ServiceDeleteCardBody(deleted) ==
    IF deleted.kind = "raise" THEN deleted
    ELSE IF deleted.value THEN Return(TRUE)
    ELSE Raise("HTTPException", 404)

ServiceDeleteCard(deleted) ==
    IF /\ ServiceDeleteCardBody(deleted).kind = "raise"
       /\ IsInstance(ServiceDeleteCardBody(deleted).exc, "Exception")
    THEN Raise("HTTPException", 500)
    ELSE ServiceDeleteCardBody(deleted)

\* routes.delete_card, lines 121-130: an HTTPException is passed on, any
\* other exception becomes an HTTPException 500; the status the caller gets.
RouteDeleteCard(served) ==
    IF served.kind = "return" THEN 200
    ELSE IF IsInstance(served.exc, "HTTPException") THEN served.status_code
    ELSE 500

\* routes.create_card, lines 40-46.
RouteCreateCard(db_error) == IF db_error THEN 500 ELSE 200

(***************************************************************************)
(* services/code_documentation_matcher.py: _extract_class_name.  A text is  *)
(* the sequence of its words; a code fence of three backticks, with the     *)
(* language tag attached to it, is the word "fence:" with the tag.          *)
(***************************************************************************)
\* re.IGNORECASE on the words of the model.
IgnoreCase(word) ==
    CASE word = "Class" -> "class"
      [] word = "Module" -> "module"
      [] OTHER -> word

IsFence(word) == word \in {"fence:", "fence:java"}

\* \w+ : a word that is not a fence.
IsName(word) == ~IsFence(word)

\* words[0][0].isupper(), line 680.
IsUpper(word) == word \in {"Class", "Module", "Guide", "Foo", "Bar", "Baz", "Qux"}

\* re.search of a keyword, white space, an optional quote and (\w+), with
\* re.IGNORECASE: the word after the leftmost keyword that has one, or None.
RECURSIVE PhraseFrom(_, _, _)
PhraseFrom(keywords, words, i) ==
    IF i + 1 > Len(words) THEN None
    ELSE IF IgnoreCase(words[i]) \in keywords /\ IsName(words[i + 1]) THEN words[i + 1]
    ELSE PhraseFrom(keywords, words, i + 1)

Phrase(keywords, words) == PhraseFrom(keywords, words, 1)

\* re.search, line 665, of a fence with its tag, an optional "public", "class"
\* and (\w+), with re.IGNORECASE.
RECURSIVE CodeBlockClassFrom(_, _)
CodeBlockClassFrom(words, i) ==
    IF i + 2 > Len(words) THEN None
    ELSE IF /\ IsFence(words[i])
            /\ IgnoreCase(words[i + 1]) = "class"
            /\ IsName(words[i + 2])
    THEN words[i + 2]
    ELSE IF /\ i + 3 <= Len(words)
            /\ IsFence(words[i])
            /\ IgnoreCase(words[i + 1]) = "public"
            /\ IgnoreCase(words[i + 2]) = "class"
            /\ IsName(words[i + 3])
    THEN words[i + 3]
    ELSE CodeBlockClassFrom(words, i + 1)

\* Lines 657-658: the phrase of the document's title (the Russian keywords
\* are written in Latin letters).
TitleClass(doc) == Phrase({"klassa", "class", "modulya", "module"}, doc.meta.title)

\* Lines 661-668: the phrase of the first section's content.
FirstSectionClass(doc) ==
    IF Len(doc.sections) > 0
    THEN Phrase({"klass", "class"}, doc.sections[1].content)
    ELSE None

\* Lines 671-676: the first section, in the document's order, whose content
\* declares a class in a code block.
RECURSIVE DeclaredClassFrom(_, _)
DeclaredClassFrom(sections, i) ==
    IF i > Len(sections) THEN None
    ELSE IF CodeBlockClassFrom(sections[i].content, 1) # None
    THEN CodeBlockClassFrom(sections[i].content, 1)
    ELSE DeclaredClassFrom(sections, i + 1)

DeclaredClass(doc) == DeclaredClassFrom(doc.sections, 1)

\* Lines 679-684: the first word of the title, if it starts with a capital.
TitleFirstWord(doc) ==
    IF Len(doc.meta.title) > 0 /\ IsUpper(doc.meta.title[1])
    THEN doc.meta.title[1]
    ELSE None

\* Lines 687-691: the phrase of the title of any section.
RECURSIVE SectionTitleClassFrom(_, _)
SectionTitleClassFrom(sections, i) ==
    IF i > Len(sections) THEN None
    ELSE IF Phrase({"klassa", "class"}, sections[i].title) # None
    THEN Phrase({"klassa", "class"}, sections[i].title)
    ELSE SectionTitleClassFrom(sections, i + 1)

\* CodeDocumentationMatcher._extract_class_name, lines 642-696.
MatcherExtractClassName(doc) ==
    IF TitleClass(doc) # None THEN TitleClass(doc)
    ELSE IF FirstSectionClass(doc) # None THEN FirstSectionClass(doc)
    ELSE IF DeclaredClass(doc) # None THEN DeclaredClass(doc)
    ELSE IF TitleFirstWord(doc) # None THEN TitleFirstWord(doc)
    ELSE IF SectionTitleClassFrom(doc.sections, 1) # None
    THEN SectionTitleClassFrom(doc.sections, 1)
    ELSE "Calculator"

\* _extract_doc_methods, line 572: the key of a documented method.
FullName(doc, name) ==
    IF MatcherExtractClassName(doc) # None
    THEN <<MatcherExtractClassName(doc), name>>
    ELSE <<name>>

(***************************************************************************)
(* services/code_documentation_matcher.py: the sections in which           *)
(* _extract_doc_methods looks for methods.                                  *)
(***************************************************************************)
\* _find_methods_container_sections, lines 753-756.
ContainerTitles ==
    {"Methods", "Class Methods", "API", "API Reference", "Functions"}

\* Line 765: a title that has "method", "function" or "api" in it, whatever
\* the case of the letters.
HasContainerWord(title) ==
    title \in ContainerTitles \cup {"Helper functions", "Public methods"}

\* _find_methods_container_sections, lines 736-767: the containers, in the
\* document's order.
FindMethodsContainerSections(sections) ==
    SelectSeq(sections, LAMBDA s : s.title \in ContainerTitles \/ HasContainerWord(s.title))

\* _is_child_section, lines 769-796.
IsChildSection(section, parent_section) ==
    IF section.level <= parent_section.level THEN FALSE
    ELSE section.line_number > parent_section.line_number

\* _extract_doc_methods, lines 549-558: every container followed by its
\* children, or every section if there is no container.
RECURSIVE CandidatesFrom(_, _, _)
CandidatesFrom(sections, containers, i) ==
    IF i > Len(containers) THEN <<>>
    ELSE <<containers[i]>>
         \o SelectSeq(sections, LAMBDA s : IsChildSection(s, containers[i]))
         \o CandidatesFrom(sections, containers, i + 1)

CandidateSections(sections) ==
    IF Len(FindMethodsContainerSections(sections)) > 0
    THEN CandidatesFrom(sections, FindMethodsContainerSections(sections), 1)
    ELSE sections

(***************************************************************************)
(* services/documentation_parser.py: _extract_blocks                       *)
(***************************************************************************)
\* A line that starts with "[source".
SourceLine == MkLine("text", 0, "[source")

\* line[:4] of a delimiter line: four of its marker characters.
FirstFour(line) == MkLine("delim", DelimiterLen, line.txt)

\* _determine_block_type, lines 318-346, for the markers of the model.
DetermineBlockType(delimiter, previous_line) ==
    IF delimiter.txt = "-"
    THEN IF previous_line = SourceLine THEN "code" ELSE "listing"
    ELSE IF delimiter.txt = "." THEN "literal"
    ELSE "unknown"

\* Lines 299-306: the record of the block opened at line block_start and
\* closed at line i (both counted from 1 here, as start_line and end_line are).
BlockRecord(lines, block_start, i, block_type) ==
    [type |-> DetermineBlockType(block_type,
                                 IF block_start > 1 THEN lines[block_start - 1]
                                 ELSE BlankLine),
     content |-> SubSeq(lines, block_start + 1, i - 1),
     start_line |-> block_start,
     end_line |-> i]

\* Line 298: line == block_type.
ClosesBlock(line, block_type) == line = block_type

\* _extract_blocks, lines 289-314: block_start = 0 while no block is open.
RECURSIVE ExtractBlocksFrom(_, _, _, _, _)
ExtractBlocksFrom(lines, i, block_start, block_type, done) ==
    IF i > Len(lines) THEN done
    ELSE IF StartsWithDelimiter(lines[i]) /\ block_start = 0
    THEN ExtractBlocksFrom(lines, i + 1, i, FirstFour(lines[i]), done)
    ELSE IF StartsWithDelimiter(lines[i]) /\ ClosesBlock(lines[i], block_type)
    THEN ExtractBlocksFrom(lines, i + 1, 0, NoLine,
             Append(done, BlockRecord(lines, block_start, i, block_type)))
    ELSE ExtractBlocksFrom(lines, i + 1, block_start, block_type, done)

ExtractBlocks(lines) == ExtractBlocksFrom(lines, 1, 0, NoLine, <<>>)

(***************************************************************************)
(* services/validators/syntax_validator.py: _validate_tables.  A line that *)
(* starts with "|" is the table delimiter "|===" or a row of n cells.       *)
(***************************************************************************)
TableDelimiter == MkLine("table", 0, "|===")

Row(n) == MkLine("row", n, "")

\* line.startswith("|===")
StartsWithTableDelimiter(line) == line.kind = "table"

\* line.startswith("|")
StartsWithBar(line) == line.kind \in {"table", "row"}

\* len(re.findall(r"\|[^|]*", line)), line 413: one match for each bar, so
\* one for the line "|===".
CellsCount(line) == IF line.kind = "table" THEN 1 ELSE line.n

\* _validate_tables, lines 404-434: the loop.  The branches are tried in the
\* order of the code: the opening, the row, the closing.
RECURSIVE ValidateTablesFrom(_, _, _, _, _, _)
ValidateTablesFrom(lines, i, in_table, table_start_line, columns_count, issues) ==
    IF i > Len(lines)
    THEN IF in_table
         THEN Append(issues, SyntaxIssue("SYNTAX-TABLE-UNCLOSED", table_start_line))
         ELSE issues
    ELSE IF StartsWithTableDelimiter(lines[i]) /\ ~in_table
    THEN ValidateTablesFrom(lines, i + 1, TRUE, i, 0, issues)
    ELSE IF in_table /\ StartsWithBar(lines[i])
    THEN IF columns_count = 0
         THEN ValidateTablesFrom(lines, i + 1, in_table, table_start_line,
                                 CellsCount(lines[i]), issues)
         ELSE IF CellsCount(lines[i]) # columns_count
         THEN ValidateTablesFrom(lines, i + 1, in_table, table_start_line, columns_count,
                  Append(issues, SyntaxIssue("SYNTAX-TABLE-COLUMNS", i)))
         ELSE ValidateTablesFrom(lines, i + 1, in_table, table_start_line,
                                 columns_count, issues)
    ELSE IF StartsWithTableDelimiter(lines[i]) /\ in_table
    THEN ValidateTablesFrom(lines, i + 1, FALSE, table_start_line, 0, issues)
    ELSE ValidateTablesFrom(lines, i + 1, in_table, table_start_line, columns_count,
                            issues)

\* _validate_tables, lines 384-449.
ValidateTables(lines) == ValidateTablesFrom(lines, 1, FALSE, 0, 0, <<>>)

(***************************************************************************)
(* services/validators/syntax_validator.py: _validate_links, the internal  *)
(* links.  A line declares the anchor txt ("[[txt]]"), refers to it        *)
(* ("<<txt>>"), refers to it with a text ("<<txt,text>>"), or is prose.    *)
(***************************************************************************)
AnchorLine(name) == MkLine("anchor", 0, name)

XrefLine(name) == MkLine("xref", 0, name)

XrefTextLine(name) == MkLine("xreftext", 0, name)

\* Lines 483-484: re.findall(anchor_pattern, line) over the lines.
Anchors(lines) ==
    {lines[i].txt : i \in {j \in DOMAIN lines : lines[j].kind = "anchor"}}

\* Lines 487-493: re.findall(internal_link_pattern, line) over the lines; of
\* a link with a comma the part before it, stripped, is kept.
InternalLinks(lines) ==
    {lines[i].txt : i \in {j \in DOMAIN lines : lines[j].kind \in {"xref", "xreftext"}}}

\* Line 504: f"<<{link}>>" in line; the text of a link with a text is not
\* "<<link>>".
HasLiteralLink(line, link) == line.kind = "xref" /\ line.txt = link

\* Lines 503-514: the first line that has the literal link, or 0.
RECURSIVE FirstLiteralFrom(_, _, _)
FirstLiteralFrom(lines, link, i) ==
    IF i > Len(lines) THEN 0
    ELSE IF HasLiteralLink(lines[i], link) THEN i
    ELSE FirstLiteralFrom(lines, link, i + 1)

\* Lines 499-514: one issue for each link that is no anchor, at the first
\* line that has it literally, if any line has.  The links are a Python set,
\* so the issues come in no fixed order: they are kept as a set.
BrokenLinkIssues(lines) ==
    {SyntaxIssue("SYNTAX-LINK-BROKEN", FirstLiteralFrom(lines, link, 1)) :
        link \in {l \in InternalLinks(lines) \ Anchors(lines) :
                      FirstLiteralFrom(lines, l, 1) # 0}}

(***************************************************************************)
(* services/validators/syntax_validator.py: _validate_lists.  A line is a  *)
(* bulleted item ("* x", "- x"), a numbered item ("1. x"), prose or blank. *)
(***************************************************************************)
BulletItem == MkLine("ul", 0, "x")

NumberItem == MkLine("ol", 0, "x")

\* re.match(r"^\s*[\*\-]\s+\S+", stripped_line)
IsBulletItem(line) == line.kind = "ul"

\* re.match(r"^\s*\d+\.\s+\S+", stripped_line)
IsNumberItem(line) == line.kind = "ol"

\* not stripped_line
IsBlank(line) == line.kind = "blank"

\* _validate_lists, lines 337-380: the loop; list_type is None while no list
\* is open.
RECURSIVE ValidateListsFrom(_, _, _, _)
ValidateListsFrom(lines, i, list_type, issues) ==
    IF i > Len(lines) THEN issues
    ELSE IF IsBulletItem(lines[i]) /\ list_type = None
    THEN ValidateListsFrom(lines, i + 1, "ul", issues)
    ELSE IF IsNumberItem(lines[i]) /\ list_type = None
    THEN ValidateListsFrom(lines, i + 1, "ol", issues)
    ELSE IF list_type = "ul" /\ IsNumberItem(lines[i])
    THEN ValidateListsFrom(lines, i + 1, list_type,
             Append(issues, SyntaxIssue("SYNTAX-LIST-MIXED", i)))
    ELSE IF list_type = "ol" /\ IsBulletItem(lines[i])
    THEN ValidateListsFrom(lines, i + 1, list_type,
             Append(issues, SyntaxIssue("SYNTAX-LIST-MIXED", i)))
    ELSE IF list_type # None /\ IsBlank(lines[i])
    THEN ValidateListsFrom(lines, i + 1, None, issues)
    ELSE ValidateListsFrom(lines, i + 1, list_type, issues)

\* _validate_lists, lines 317-382.
ValidateLists(lines) == ValidateListsFrom(lines, 1, None, <<>>)

(***************************************************************************)
(* services/analyzers/java_analyzer.py and python_analyzer.py: the end     *)
(* line of a construct.  A Java line ends with "{" (open), is "}" alone    *)
(* (close), ends with "}" after other text (endsclose), has "}" followed   *)
(* by a comment (closecomment), or is a statement; a Python line is code   *)
(* with an indentation of n, or blank.                                     *)
(***************************************************************************)
JavaLine(kind) == MkLine(kind, 0, "")

PythonLine(indent) == MkLine("py", indent, "x")

\* source_lines[i].strip().endswith("}"), java_analyzer.py line 243.
EndsWithBrace(line) == line.kind \in {"close", "endsclose"}

\* source_lines[i].strip() == "}", java_analyzer.py line 377.
IsBrace(line) == line.kind = "close"

\* JavaAnalyzer._parse_method, lines 238-245: i runs over the indices
\* line_start .. len(source_lines) - 1, which are the lines line_start + 1 ..
\* len(source_lines); line n here is index n - 1 there.
RECURSIVE MethodEndFrom(_, _)
MethodEndFrom(source_lines, n) ==
    IF n > Len(source_lines) THEN 0
    ELSE IF EndsWithBrace(source_lines[n]) THEN n
    ELSE MethodEndFrom(source_lines, n + 1)

JavaMethodEnd(source_lines, line_start) == MethodEndFrom(source_lines, line_start + 1)

\* JavaAnalyzer._parse_class, lines 372-379.
RECURSIVE ClassEndFrom(_, _)
ClassEndFrom(source_lines, n) ==
    IF n > Len(source_lines) THEN 0
    ELSE IF IsBrace(source_lines[n]) THEN n
    ELSE ClassEndFrom(source_lines, n + 1)

JavaClassEnd(source_lines, line_start) == ClassEndFrom(source_lines, line_start + 1)

\* PythonAnalyzer._parse_function, lines 317-326: the line before the first
\* line after line_start that is not blank and not indented deeper than the
\* line of the def, or 0.
RECURSIVE IndentEndFrom(_, _, _)
IndentEndFrom(source_lines, n, func_indent) ==
    IF n > Len(source_lines) THEN 0
    ELSE IF source_lines[n].kind = "py" /\ source_lines[n].n <= func_indent THEN n - 1
    ELSE IndentEndFrom(source_lines, n + 1, func_indent)

\* PythonAnalyzer._parse_function, lines 313-329.
PythonFunctionEnd(source_lines, line_start, end_lineno) ==
    IF end_lineno # 0 THEN end_lineno
    ELSE IF IndentEndFrom(source_lines, line_start + 1, source_lines[line_start].n) # 0
    THEN IndentEndFrom(source_lines, line_start + 1, source_lines[line_start].n)
    ELSE Len(source_lines)

(***************************************************************************)
(* The groups of variables, and each group at rest.                        *)
(***************************************************************************)
statusVars == <<allIssues, report>>

structVars == <<content, syntaxIssues, validated>>

resolveVars == <<codeFile, docStructures, found>>

flowVars == <<request, matcherIssues, codeStructures, fileIssues>>

paramVars == <<funcDef, docParameters, methodInfo, paramIssues, paramsMatched>>

endpointVars == <<codeStructure, docLines, docStructure, apiIssues, apiMatched>>

vars ==
    <<allIssues, report, content, syntaxIssues, validated, codeFile, docStructures,
      found, request, matcherIssues, codeStructures, fileIssues, funcDef,
      docParameters, methodInfo, paramIssues, paramsMatched, codeStructure,
      docLines, docStructure, apiIssues, apiMatched, asciidoctor, checked_urls,
      parsedDoc, lastValidated, cleanRuns, network,
      scanner, recursive, scanFiles, cursor, scanResult, scanState,
      cards, card_seq, cardsBefore, cardResponse,
      namedDoc, extractedName,
      sectionList, candidates, candidatesFormed,
      blockLines, blocks, blocksExtracted,
      tableLines, tableIssues, tablesValidated,
      linkLines, linkIssues, linksValidated,
      listLines, listIssues, listsValidated,
      simCode, simDocs, best,
      construct, spanLines, spanStart, endLineno, spanEnd, spanParsed,
      upload, parser_checked_urls, parserNetwork, uploadResponse,
      producer, writable, message_is_dict, max_retries, retries, metrics, acknowledged, delivered, sendState>>

sendVars == <<producer, writable, message_is_dict, max_retries, retries, metrics, acknowledged, delivered, sendState>>

uploadVars == <<upload, parser_checked_urls, parserNetwork, uploadResponse>>

spanVars == <<construct, spanLines, spanStart, endLineno, spanEnd, spanParsed>>

simVars == <<simCode, simDocs, best>>

listVars == <<listLines, listIssues, listsValidated>>

linkVars == <<linkLines, linkIssues, linksValidated>>

tableVars == <<tableLines, tableIssues, tablesValidated>>

blockVars == <<blockLines, blocks, blocksExtracted>>

childVars == <<sectionList, candidates, candidatesFormed>>

nameVars == <<namedDoc, extractedName>>

cardVars == <<cards, card_seq, cardsBefore, cardResponse>>

scanVars == <<scanner, recursive, scanFiles, cursor, scanResult, scanState>>

engineVars ==
    <<asciidoctor, checked_urls, parsedDoc, lastValidated, cleanRuns, network>>

StatusIdle == allIssues = <<>> /\ report = NoReport

StructIdle == content = <<>> /\ syntaxIssues = <<>> /\ validated = FALSE

NoCodeFile == [lang |-> None, base |-> "", classes |-> <<>>, methods |-> {}]

\* _find_matching_doc has not returned.
Unresolved == Found(-1, 0)

ResolveIdle == codeFile = NoCodeFile /\ docStructures = <<>> /\ found = Unresolved

FlowIdle ==
    /\ request = None
    /\ matcherIssues = <<>>
    /\ codeStructures = <<>>
    /\ fileIssues = <<>>

NoFunction == [name |-> None, args |-> <<>>, defaults |-> 0, is_method |-> FALSE]

NoMethod == [name |-> None, parameters |-> <<>>]

ParamsIdle ==
    /\ funcDef = NoFunction
    /\ docParameters = <<>>
    /\ methodInfo = NoMethod
    /\ paramIssues = <<>>
    /\ paramsMatched = FALSE

NoCode == [classes |-> <<>>, functions |-> <<>>]

NoDocument == [sections |-> <<>>, meta |-> [title |-> None]]

EngineIdle ==
    /\ asciidoctor = "lenient"
    /\ checked_urls = <<>>
    /\ parsedDoc = NoDocument
    /\ lastValidated = None
    /\ cleanRuns = 0
    /\ network = <<>>

EndpointsIdle ==
    /\ codeStructure = NoCode
    /\ docLines = <<>>
    /\ docStructure = NoDocument
    /\ apiIssues = <<>>
    /\ apiMatched = FALSE

ScanIdle ==
    /\ scanner = None
    /\ recursive = FALSE
    /\ scanFiles = <<>>
    /\ cursor = 0
    /\ scanResult = {}
    /\ scanState = None

NoResponse == [op |-> None, card_id |-> 0, db_error |-> FALSE, status_code |-> 0]

CardsIdle ==
    /\ cards = {}
    /\ card_seq = 0
    /\ cardsBefore = {}
    /\ cardResponse = NoResponse

NameIdle ==
    /\ namedDoc = [sections |-> <<>>, meta |-> [title |-> <<>>]]
    /\ extractedName = <<>>

ChildIdle ==
    /\ sectionList = <<>>
    /\ candidates = <<>>
    /\ candidatesFormed = FALSE

BlocksIdle ==
    /\ blockLines = <<>>
    /\ blocks = <<>>
    /\ blocksExtracted = FALSE

TablesIdle ==
    /\ tableLines = <<>>
    /\ tableIssues = <<>>
    /\ tablesValidated = FALSE

LinksIdle ==
    /\ linkLines = <<>>
    /\ linkIssues = {}
    /\ linksValidated = FALSE

ListsIdle ==
    /\ listLines = <<>>
    /\ listIssues = <<>>
    /\ listsValidated = FALSE

SimIdle ==
    /\ simCode = NoCodeFile
    /\ simDocs = <<>>
    /\ best = Unresolved

SpanIdle ==
    /\ construct = None
    /\ spanLines = <<>>
    /\ spanStart = 0
    /\ endLineno = 0
    /\ spanEnd = 0
    /\ spanParsed = FALSE

NoAnswer == [status_code |-> 0, detail |-> None]

UploadIdle ==
    /\ upload = <<>>
    /\ parser_checked_urls = <<>>
    /\ parserNetwork = <<>>
    /\ uploadResponse = NoAnswer

NoMetrics == [messages_sent |-> 0, retries |-> 0, errors |-> 0]

SendIdle ==
    /\ producer = FALSE
    /\ writable = FALSE
    /\ message_is_dict = FALSE
    /\ max_retries = 0
    /\ retries = 0
    /\ metrics = NoMetrics
    /\ acknowledged = 0
    /\ delivered = 0
    /\ sendState = None

(***************************************************************************)
(* The rule engine alone: validate applied to every issue list a validator *)
(* may hand it (a ValidationIssue carries a type and optional corrected    *)
(* content).                                                               *)
(***************************************************************************)
InitStatus ==
    /\ allIssues \in SeqsUpTo(ValidationIssue, MaxIssues)
    /\ report = NoReport
    /\ StructIdle
    /\ ResolveIdle
    /\ FlowIdle
    /\ ParamsIdle
    /\ EndpointsIdle
    /\ EngineIdle
    /\ ScanIdle
    /\ CardsIdle
    /\ NameIdle
    /\ ChildIdle
    /\ BlocksIdle
    /\ TablesIdle
    /\ LinksIdle
    /\ ListsIdle
    /\ SimIdle
    /\ SpanIdle
    /\ UploadIdle
    /\ SendIdle

EngineValidate ==
    /\ report = NoReport
    /\ report' = Validate(allIssues)
    /\ UNCHANGED <<allIssues, structVars, resolveVars, flowVars, paramVars, endpointVars, engineVars,
                   scanVars,
                   cardVars,
                   nameVars,
                   childVars,
                   blockVars,
                   tableVars,
                   linkVars,
                   listVars,
                   simVars,
                   spanVars,
                   uploadVars,
                   sendVars>>

NextStatus == EngineValidate

SpecStatus == InitStatus /\ [][NextStatus]_vars

(***************************************************************************)
(* The structural validator alone: _validate_structure applied to every    *)
(* text of up to MaxLines lines.                                           *)
(***************************************************************************)
StructLines ==
    {TextLine, BlankLine, Heading(1, ""), MkLine("eqrun", DelimiterLen, "")}
    \cup {Heading(n, "T") : n \in 1..MaxLevel}
    \cup {MkLine("delim", DelimiterLen, "-"), MkLine("delim", DelimiterLen + 1, "-"),
          MkLine("delim", DelimiterLen, ".")}

InitStructure ==
    /\ content \in SeqsUpTo(StructLines, MaxLines)
    /\ syntaxIssues = <<>>
    /\ validated = FALSE
    /\ StatusIdle
    /\ ResolveIdle
    /\ FlowIdle
    /\ ParamsIdle
    /\ EndpointsIdle
    /\ EngineIdle
    /\ ScanIdle
    /\ CardsIdle
    /\ NameIdle
    /\ ChildIdle
    /\ BlocksIdle
    /\ TablesIdle
    /\ LinksIdle
    /\ ListsIdle
    /\ SimIdle
    /\ SpanIdle
    /\ UploadIdle
    /\ SendIdle

RunValidateStructure ==
    /\ ~validated
    /\ syntaxIssues' = ValidateStructure(content)
    /\ validated' = TRUE
    /\ UNCHANGED <<content, statusVars, resolveVars, flowVars, paramVars, endpointVars, engineVars,
                   scanVars,
                   cardVars,
                   nameVars,
                   childVars,
                   blockVars,
                   tableVars,
                   linkVars,
                   listVars,
                   simVars,
                   spanVars,
                   uploadVars,
                   sendVars>>

NextStructure == RunValidateStructure

SpecStructure == InitStructure /\ [][NextStructure]_vars

(***************************************************************************)
(* The resolver alone: _find_matching_doc for one code file against up to  *)
(* MaxDocs documents.  The code file is Foo.<ext> with its language known  *)
(* or not, with or without a class Foo, and a method run.  A document is   *)
(* named foo or Other, with or without a language prefix; it names class   *)
(* Foo or Bar in its title, Foo in its content, or no class; it may have a *)
(* section on method run.                                                  *)
(***************************************************************************)
ResolveCodeFiles ==
    [lang : {None, "JAVA"}, base : {"Foo"}, classes : {<<>>, <<"Foo">>},
     methods : {{"run"}}]

DocClassNames ==
    {<<None, None>>, <<"Foo", None>>, <<"Bar", None>>, <<None, "Foo">>}

ResolveDocs ==
    {[detected_language |-> None, prefix |-> p, base |-> b,
      title_class |-> c[1], content_class |-> c[2], methods |-> m] :
        p \in {"", "java_", "py_"}, b \in {"foo", "Other"},
        c \in DocClassNames, m \in {{}, {"run"}}}

InitResolve ==
    /\ codeFile \in ResolveCodeFiles
    /\ docStructures \in SeqsUpTo(ResolveDocs, MaxDocs)
    /\ found = Unresolved
    /\ StatusIdle
    /\ StructIdle
    /\ FlowIdle
    /\ ParamsIdle
    /\ EndpointsIdle
    /\ EngineIdle
    /\ ScanIdle
    /\ CardsIdle
    /\ NameIdle
    /\ ChildIdle
    /\ BlocksIdle
    /\ TablesIdle
    /\ LinksIdle
    /\ ListsIdle
    /\ SimIdle
    /\ SpanIdle
    /\ UploadIdle
    /\ SendIdle

RunFindMatchingDoc ==
    /\ found = Unresolved
    /\ found' = FindMatchingDoc(codeFile, docStructures)
    /\ UNCHANGED <<codeFile, docStructures, statusVars, structVars, flowVars, paramVars, endpointVars, engineVars,
                   scanVars,
                   cardVars,
                   nameVars,
                   childVars,
                   blockVars,
                   tableVars,
                   linkVars,
                   listVars,
                   simVars,
                   spanVars,
                   uploadVars,
                   sendVars>>

NextResolve == RunFindMatchingDoc

SpecResolve == InitResolve /\ [][NextResolve]_vars

(***************************************************************************)
(* The controller's two flows that add matcher issues to a report:         *)
(* /validate-with-code, from the issues the syntax validator finds in the  *)
(* document (all of type SYNTAX, none corrected) and the issues the        *)
(* matcher finds (SEMANTIC or COMPLETENESS), and /validate-project, from   *)
(* up to MaxCodeFiles code files, up to MaxDocs documents and what         *)
(* _match_file returns for each code file.                                 *)
(***************************************************************************)
SyntaxValidatorIssues ==
    {SyntaxIssue("SYNTAX-HEADER-FORMAT", 1),
     [SyntaxIssue("SYNTAX-HEADER-FORMAT", 2) EXCEPT !.corrected = TRUE]}

MatcherIssues ==
    {Issue("SEMANTIC-METHOD-001", 1, "SEMANTIC"),
     Issue("COMPLETENESS-METHOD-001", 1, "COMPLETENESS")}

FlowCodeFiles ==
    [lang : {"JAVA"}, base : {"Foo"}, classes : {<<>>, <<"Foo">>}, methods : {{"run"}}]

FlowDocs ==
    [detected_language : {None}, prefix : {""}, base : {"Other"},
     title_class : {None, "Foo", "Bar"}, content_class : {None}, methods : {{}}]
    \cup
    {[detected_language |-> None, prefix |-> "", base |-> "foo",
      title_class |-> None, content_class |-> None, methods |-> {}],
     [detected_language |-> None, prefix |-> "", base |-> "foo",
      title_class |-> "Bar", content_class |-> None, methods |-> {}],
     [detected_language |-> None, prefix |-> "", base |-> "Other",
      title_class |-> None, content_class |-> None, methods |-> {"run"}]}

InitFlows ==
    /\ report = NoReport
    /\ ParamsIdle
    /\ EndpointsIdle
    /\ EngineIdle
    /\ StructIdle
    /\ codeFile = NoCodeFile
    /\ found = Unresolved
    /\ \/ /\ request = "validate-with-code"
          /\ allIssues \in SeqsUpTo(SyntaxValidatorIssues, MaxIssues)
          /\ matcherIssues \in SeqsUpTo(MatcherIssues, MaxMatcherIssues)
          /\ codeStructures = <<>>
          /\ docStructures = <<>>
          /\ fileIssues = <<>>
       \/ /\ request = "validate-project"
          /\ allIssues = <<>>
          /\ matcherIssues = <<>>
          /\ codeStructures \in SeqsUpTo(FlowCodeFiles, MaxCodeFiles)
          /\ docStructures \in SeqsUpTo(FlowDocs, MaxDocs)
          /\ fileIssues \in [DOMAIN codeStructures -> SeqsUpTo(MatcherIssues, MaxFileIssues)]
    /\ ScanIdle
    /\ CardsIdle
    /\ NameIdle
    /\ ChildIdle
    /\ BlocksIdle
    /\ TablesIdle
    /\ LinksIdle
    /\ ListsIdle
    /\ SimIdle
    /\ SpanIdle
    /\ UploadIdle
    /\ SendIdle

ValidateDocumentationWithCode ==
    /\ request = "validate-with-code"
    /\ report = NoReport
    /\ report' = ValidateWithCode(allIssues, matcherIssues)
    /\ UNCHANGED <<allIssues, structVars, resolveVars, flowVars, paramVars, endpointVars, engineVars,
                   scanVars,
                   cardVars,
                   nameVars,
                   childVars,
                   blockVars,
                   tableVars,
                   linkVars,
                   listVars,
                   simVars,
                   spanVars,
                   uploadVars,
                   sendVars>>

ValidateProject ==
    /\ request = "validate-project"
    /\ report = NoReport
    /\ report' = MatchProject(codeStructures, docStructures, fileIssues)
    /\ UNCHANGED <<allIssues, structVars, resolveVars, flowVars, paramVars, endpointVars, engineVars,
                   scanVars,
                   cardVars,
                   nameVars,
                   childVars,
                   blockVars,
                   tableVars,
                   linkVars,
                   listVars,
                   simVars,
                   spanVars,
                   uploadVars,
                   sendVars>>

NextFlows == ValidateDocumentationWithCode \/ ValidateProject

SpecFlows == InitFlows /\ [][NextFlows]_vars

(***************************************************************************)
(* The parameters of a Python function against the documented ones: any    *)
(* function of up to MaxArgs arguments with distinct names, annotated or   *)
(* not, whose trailing arguments have defaults, and any list of up to      *)
(* MaxDocParams documented parameters.                                     *)
(***************************************************************************)
ParamArgs ==
    [arg : {"self", "count"},
     annotation : {NoAnnotation, AstName("int"), AstSubscript("List")}]

ParamFunctions ==
    {f \in [name : {"list_users"}, args : SeqsUpTo(ParamArgs, MaxArgs),
            defaults : 0..MaxArgs, is_method : BOOLEAN] :
        /\ f.defaults <= Len(f.args)
        /\ \A i, j \in DOMAIN f.args : f.args[i].arg = f.args[j].arg => i = j}

DocParams == [name : {"count", "limit"}, type : {None, "int", "str"}, required : BOOLEAN]

InitParams ==
    /\ funcDef \in ParamFunctions
    /\ docParameters \in SeqsUpTo(DocParams, MaxDocParams)
    /\ methodInfo = NoMethod
    /\ paramIssues = <<>>
    /\ paramsMatched = FALSE
    /\ StatusIdle
    /\ StructIdle
    /\ ResolveIdle
    /\ FlowIdle
    /\ EndpointsIdle
    /\ EngineIdle
    /\ ScanIdle
    /\ CardsIdle
    /\ NameIdle
    /\ ChildIdle
    /\ BlocksIdle
    /\ TablesIdle
    /\ LinksIdle
    /\ ListsIdle
    /\ SimIdle
    /\ SpanIdle
    /\ UploadIdle
    /\ SendIdle

AnalyzeFunction ==
    /\ methodInfo = NoMethod
    /\ methodInfo' = ParseFunction(funcDef)
    /\ UNCHANGED <<funcDef, docParameters, paramIssues, paramsMatched, statusVars,
                   structVars, resolveVars, flowVars, endpointVars, engineVars,
                   scanVars,
                   cardVars,
                   nameVars,
                   childVars,
                   blockVars,
                   tableVars,
                   linkVars,
                   listVars,
                   simVars,
                   spanVars,
                   uploadVars,
                   sendVars>>

RunMatchParameters ==
    /\ methodInfo # NoMethod
    /\ ~paramsMatched
    /\ paramIssues' = MatchParameters(methodInfo, docParameters)
    /\ paramsMatched' = TRUE
    /\ UNCHANGED <<funcDef, docParameters, methodInfo, statusVars, structVars,
                   resolveVars, flowVars, endpointVars, engineVars,
                   scanVars,
                   cardVars,
                   nameVars,
                   childVars,
                   blockVars,
                   tableVars,
                   linkVars,
                   listVars,
                   simVars,
                   spanVars,
                   uploadVars,
                   sendVars>>

NextParams == AnalyzeFunction \/ RunMatchParameters

SpecParams == InitParams /\ [][NextParams]_vars

(***************************************************************************)
(* The endpoints of a code structure against a document: up to             *)
(* MaxEndpoints top-level functions and at most one class with at most one *)
(* method, and a document that is either parsed from up to MaxSections     *)
(* lines or handed over as a structure whose sections carry a path or a    *)
(* url.                                                                    *)
(***************************************************************************)
IdParameter == [name |-> "id", type |-> "int", required |-> TRUE]

NameParameter == [name |-> "name", type |-> "str", required |-> TRUE]

EndpointMethods ==
    {[name |-> "list_users", is_api_endpoint |-> TRUE, http_method |-> "GET",
      path |-> "/users", parameters |-> <<>>],
     [name |-> "create_user", is_api_endpoint |-> TRUE, http_method |-> "POST",
      path |-> "/users", parameters |-> <<NameParameter>>],
     [name |-> "get_user", is_api_endpoint |-> TRUE, http_method |-> "GET",
      path |-> "/users/{id}", parameters |-> <<IdParameter>>],
     [name |-> "helper", is_api_endpoint |-> FALSE, http_method |-> None,
      path |-> None, parameters |-> <<>>]}

RequestMapping ==
    [name |-> "RequestMapping",
     parameters |-> <<[key |-> "value", value |-> [text |-> "/api", quoted |-> TRUE]]>>]

EndpointClasses ==
    [name : {"UserController"}, is_controller : BOOLEAN,
     annotations : {<<>>, <<RequestMapping>>},
     methods : {<<>>} \cup {<<m>> : m \in EndpointMethods}]

EndpointCodes ==
    [classes : {<<>>} \cup {<<c>> : c \in EndpointClasses},
     functions : SeqsUpTo(EndpointMethods, MaxEndpoints)]

EndpointLines ==
    {Heading(1, "API"), Heading(2, "GET /users/{id}"), Heading(2, "POST /users"), TextLine}

GivenSections ==
    {[title |-> "GET /users/{id}", level |-> 2, content |-> <<>>, line_number |-> 1,
      path |-> "/users/{id}",
      subsections |-> <<[title |-> "Parameters", params |-> <<IdParameter>>]>>],
     [title |-> "Get or post users", level |-> 2, content |-> <<>>, line_number |-> 1,
      url |-> "/users"],
     [title |-> "Users", level |-> 2, content |-> <<>>, line_number |-> 1,
      path |-> "/api/users"]}

GivenDocuments ==
    [sections : SeqsUpTo(GivenSections, MaxSections) \ {<<>>},
     meta : {[title |-> "API"]}]

InitEndpoints ==
    /\ codeStructure \in EndpointCodes
    /\ \/ /\ docLines \in SeqsUpTo(EndpointLines, MaxSections)
          /\ docStructure = ParseAsciidoc(docLines)
       \/ /\ docLines = <<>>
          /\ docStructure \in GivenDocuments
    /\ apiIssues = <<>>
    /\ apiMatched = FALSE
    /\ StatusIdle
    /\ StructIdle
    /\ ResolveIdle
    /\ FlowIdle
    /\ ParamsIdle
    /\ EngineIdle
    /\ ScanIdle
    /\ CardsIdle
    /\ NameIdle
    /\ ChildIdle
    /\ BlocksIdle
    /\ TablesIdle
    /\ LinksIdle
    /\ ListsIdle
    /\ SimIdle
    /\ SpanIdle
    /\ UploadIdle
    /\ SendIdle

RunMatchApiEndpoints ==
    /\ ~apiMatched
    /\ apiIssues' = MatchApiEndpoints(codeStructure, docStructure)
    /\ apiMatched' = TRUE
    /\ UNCHANGED <<codeStructure, docLines, docStructure, statusVars, structVars,
                   resolveVars, flowVars, paramVars, engineVars,
                   scanVars,
                   cardVars,
                   nameVars,
                   childVars,
                   blockVars,
                   tableVars,
                   linkVars,
                   listVars,
                   simVars,
                   spanVars,
                   uploadVars,
                   sendVars>>

NextEndpoints == RunMatchApiEndpoints

SpecEndpoints == InitEndpoints /\ [][NextEndpoints]_vars

(***************************************************************************)
(* One rule engine, as the controller shares it between the requests, and  *)
(* one document of up to MaxEngineLines lines that is validated again and  *)
(* again, with other documents validated in between.  The network answers  *)
(* each call as it likes.                                                  *)
(***************************************************************************)
Urls == {"http://a.example", "http://b.example"}

EngineLines ==
    {Heading(1, "Guide"), Heading(3, "Deep"), MkLine("delim", DelimiterLen, "-")}
    \cup {UrlLine(url) : url \in Urls}

OtherDocuments ==
    {ParseAsciidoc(<<Heading(1, "Other"), UrlLine("http://a.example")>>),
     ParseAsciidoc(<<Heading(1, "Other"), UrlLine("http://a.example"),
                     UrlLine("http://b.example")>>),
     ParseAsciidoc(<<Heading(1, "Other"), Heading(3, "Deep")>>)}

InitEngine ==
    /\ asciidoctor \in Asciidoctor
    /\ checked_urls = <<>>
    /\ parsedDoc \in {ParseAsciidoc(lines) : lines \in SeqsUpTo(EngineLines, MaxEngineLines)}
    /\ lastValidated = None
    /\ cleanRuns = 0
    /\ network = <<>>
    /\ StatusIdle
    /\ StructIdle
    /\ ResolveIdle
    /\ FlowIdle
    /\ ParamsIdle
    /\ EndpointsIdle
    /\ ScanIdle
    /\ CardsIdle
    /\ NameIdle
    /\ ChildIdle
    /\ BlocksIdle
    /\ TablesIdle
    /\ LinksIdle
    /\ ListsIdle
    /\ SimIdle
    /\ SpanIdle
    /\ UploadIdle
    /\ SendIdle

\* ValidationRuleEngine.validate on parsed_doc, the network answering answers.
ValidateOnEngine(parsed_doc, answers) ==
    /\ allIssues' = EngineIssues(parsed_doc, asciidoctor, checked_urls, answers)
    /\ report' = Validate(allIssues')
    /\ checked_urls' = EngineCheckedUrls(parsed_doc, checked_urls, answers)
    /\ network' = answers

ValidateDocument ==
    /\ \E answers \in [Urls -> BOOLEAN] : ValidateOnEngine(parsedDoc, answers)
    /\ lastValidated' = "document"
    /\ cleanRuns' = IF Len(allIssues') = 0 /\ cleanRuns < MaxCleanRuns
                    THEN cleanRuns + 1
                    ELSE cleanRuns
    /\ UNCHANGED <<asciidoctor, parsedDoc, structVars, resolveVars, flowVars,
                   paramVars, endpointVars,
                   scanVars,
                   cardVars,
                   nameVars,
                   childVars,
                   blockVars,
                   tableVars,
                   linkVars,
                   listVars,
                   simVars,
                   spanVars,
                   uploadVars,
                   sendVars>>

ValidateOtherDocument ==
    /\ \E other \in OtherDocuments, answers \in [Urls -> BOOLEAN] :
           ValidateOnEngine(other, answers)
    /\ lastValidated' = "other"
    /\ UNCHANGED <<asciidoctor, parsedDoc, cleanRuns, structVars, resolveVars,
                   flowVars, paramVars, endpointVars,
                   scanVars,
                   cardVars,
                   nameVars,
                   childVars,
                   blockVars,
                   tableVars,
                   linkVars,
                   listVars,
                   simVars,
                   spanVars,
                   uploadVars,
                   sendVars>>

NextEngine == ValidateDocument \/ ValidateOtherDocument

SpecEngine == InitEngine /\ [][NextEngine]_vars

(***************************************************************************)
(* A scan of a directory of up to MaxFiles files, some of which fail to    *)
(* parse, by SourceCodeAnalyzer or by the analyzer of one language.        *)
(***************************************************************************)
ScannedFiles == [ext : {"py", "java", "js", "txt"}, nested : BOOLEAN, parses : BOOLEAN]

InitScan ==
    /\ scanner \in {"SourceCodeAnalyzer"} \cup RegisteredAnalyzers
    /\ recursive \in BOOLEAN
    /\ scanFiles \in SeqsUpTo(ScannedFiles, MaxFiles)
    /\ cursor = 0
    /\ scanResult = {}
    /\ scanState = "running"
    /\ StatusIdle
    /\ StructIdle
    /\ ResolveIdle
    /\ FlowIdle
    /\ ParamsIdle
    /\ EndpointsIdle
    /\ EngineIdle
    /\ CardsIdle
    /\ NameIdle
    /\ ChildIdle
    /\ BlocksIdle
    /\ TablesIdle
    /\ LinksIdle
    /\ ListsIdle
    /\ SimIdle
    /\ SpanIdle
    /\ UploadIdle
    /\ SendIdle

AnalyzeNextFile ==
    /\ scanState = "running"
    /\ cursor < Len(scanFiles)
    /\ cursor' = cursor + 1
    /\ LET round == ScanFile(scanner, recursive, scanFiles[cursor + 1],
                             CodePath(cursor + 1), scanResult)
       IN  scanResult' = round.result /\ scanState' = round.state
    /\ UNCHANGED <<scanner, recursive, scanFiles, statusVars, structVars,
                   resolveVars, flowVars, paramVars, endpointVars, engineVars,
                   cardVars,
                   nameVars,
                   childVars,
                   blockVars,
                   tableVars,
                   linkVars,
                   listVars,
                   simVars,
                   spanVars,
                   uploadVars,
                   sendVars>>

ReturnResult ==
    /\ scanState = "running"
    /\ cursor = Len(scanFiles)
    /\ scanState' = "returned"
    /\ UNCHANGED <<scanner, recursive, scanFiles, cursor, scanResult, statusVars,
                   structVars, resolveVars, flowVars, paramVars, endpointVars, engineVars,
                   cardVars,
                   nameVars,
                   childVars,
                   blockVars,
                   tableVars,
                   linkVars,
                   listVars,
                   simVars,
                   spanVars,
                   uploadVars,
                   sendVars>>

NextScan == AnalyzeNextFile \/ ReturnResult

SpecScan == InitScan /\ [][NextScan]_vars

(***************************************************************************)
(* smart-cards: cards are created (at most MaxCards of them) and deleted    *)
(* by id; sqlite may fail any statement.                                    *)
(***************************************************************************)
InitCards ==
    /\ cards = {}
    /\ card_seq = 0
    /\ cardsBefore = {}
    /\ cardResponse = NoResponse
    /\ StatusIdle
    /\ StructIdle
    /\ ResolveIdle
    /\ FlowIdle
    /\ ParamsIdle
    /\ EndpointsIdle
    /\ EngineIdle
    /\ ScanIdle
    /\ NameIdle
    /\ ChildIdle
    /\ BlocksIdle
    /\ TablesIdle
    /\ LinksIdle
    /\ ListsIdle
    /\ SimIdle
    /\ SpanIdle
    /\ UploadIdle
    /\ SendIdle

\* POST /cards/: CardRepository.create, lines 32-51.
CreateCard ==
    /\ card_seq < MaxCards
    /\ \E db_error \in BOOLEAN :
        /\ cards' = IF db_error THEN cards ELSE cards \cup {card_seq + 1}
        /\ card_seq' = IF db_error THEN card_seq ELSE card_seq + 1
        /\ cardResponse' = [op |-> "create", card_id |-> card_seq + 1,
                            db_error |-> db_error,
                            status_code |-> RouteCreateCard(db_error)]
    /\ cardsBefore' = cards
    /\ UNCHANGED <<statusVars, structVars, resolveVars, flowVars, paramVars,
                   endpointVars, engineVars,
                   scanVars,
                   nameVars,
                   childVars,
                   blockVars,
                   tableVars,
                   linkVars,
                   listVars,
                   simVars,
                   spanVars,
                   uploadVars,
                   sendVars>>

\* DELETE /cards/{card_id}.
DeleteCard ==
    /\ \E card_id \in 1..MaxCards, db_error \in BOOLEAN :
        /\ cards' = DeletedRows(cards, card_id, db_error)
        /\ cardResponse' =
               [op |-> "delete", card_id |-> card_id, db_error |-> db_error,
                status_code |-> RouteDeleteCard(ServiceDeleteCard(
                                    CardRepositoryDelete(cards, card_id, db_error)))]
    /\ cardsBefore' = cards
    /\ UNCHANGED <<card_seq, statusVars, structVars, resolveVars, flowVars,
                   paramVars, endpointVars, engineVars,
                   scanVars,
                   nameVars,
                   childVars,
                   blockVars,
                   tableVars,
                   linkVars,
                   listVars,
                   simVars,
                   spanVars,
                   uploadVars,
                   sendVars>>

NextCards == CreateCard \/ DeleteCard

SpecCards == InitCards /\ [][NextCards]_vars

(***************************************************************************)
(* The class name of every document of up to MaxNamedSections sections     *)
(* whose title, section titles and contents are taken from texts with and  *)
(* without a phrase or a declaration that names a class.                   *)
(***************************************************************************)
NamedTitles ==
    {<<>>, <<"guide">>, <<"Guide">>, <<"class", "Foo">>, <<"Module", "Foo">>, <<"class">>}

NamedSectionTitles == {<<"Methods">>, <<"Methods", "of", "class", "Qux">>}

NamedContents ==
    {<<>>, <<"the", "class", "Bar">>, <<"fence:java", "class", "Baz">>,
     <<"fence:", "public", "class", "Baz">>, <<"fence:", "java", "class", "Baz">>}

NamedSections == [title : NamedSectionTitles, content : NamedContents]

InitName ==
    /\ namedDoc \in [sections : SeqsUpTo(NamedSections, MaxNamedSections),
                     meta : [title : NamedTitles]]
    /\ extractedName = <<>>
    /\ StatusIdle
    /\ StructIdle
    /\ ResolveIdle
    /\ FlowIdle
    /\ ParamsIdle
    /\ EndpointsIdle
    /\ EngineIdle
    /\ ScanIdle
    /\ CardsIdle
    /\ ChildIdle
    /\ BlocksIdle
    /\ TablesIdle
    /\ LinksIdle
    /\ ListsIdle
    /\ SimIdle
    /\ SpanIdle
    /\ UploadIdle
    /\ SendIdle

\* _extract_class_name(doc_structure) returns; then the key under which
\* _extract_doc_methods files a method "run" of the document.
ExtractName ==
    /\ extractedName = <<>>
    /\ extractedName' = <<MatcherExtractClassName(namedDoc)>>
    /\ UNCHANGED <<namedDoc, statusVars, structVars, resolveVars, flowVars,
                   paramVars, endpointVars, engineVars, scanVars,
                   cardVars,
                   childVars,
                   blockVars,
                   tableVars,
                   linkVars,
                   listVars,
                   simVars,
                   spanVars,
                   uploadVars,
                   sendVars>>

FileMethod ==
    /\ Len(extractedName) = 1
    /\ extractedName' = extractedName \o <<FullName(namedDoc, "run")>>
    /\ UNCHANGED <<namedDoc, statusVars, structVars, resolveVars, flowVars,
                   paramVars, endpointVars, engineVars, scanVars,
                   cardVars,
                   childVars,
                   blockVars,
                   tableVars,
                   linkVars,
                   listVars,
                   simVars,
                   spanVars,
                   uploadVars,
                   sendVars>>

NextName == ExtractName \/ FileMethod

SpecName == InitName /\ [][NextName]_vars

(***************************************************************************)
(* The candidate sections of every document of up to MaxChildSections      *)
(* sections; the parser numbers the sections' lines in their order.        *)
(***************************************************************************)
ChildTitles == {"Methods", "Examples", "run"}

Numbered(headings) ==
    [i \in DOMAIN headings |->
        [title |-> headings[i].title, level |-> headings[i].level, line_number |-> i]]

InitChild ==
    /\ sectionList \in
           {Numbered(headings) :
                headings \in SeqsUpTo([title : ChildTitles, level : 1..MaxLevel],
                                      MaxChildSections)}
    /\ candidates = <<>>
    /\ candidatesFormed = FALSE
    /\ StatusIdle
    /\ StructIdle
    /\ ResolveIdle
    /\ FlowIdle
    /\ ParamsIdle
    /\ EndpointsIdle
    /\ EngineIdle
    /\ ScanIdle
    /\ CardsIdle
    /\ NameIdle
    /\ BlocksIdle
    /\ TablesIdle
    /\ LinksIdle
    /\ ListsIdle
    /\ SimIdle
    /\ SpanIdle
    /\ UploadIdle
    /\ SendIdle

FormCandidates ==
    /\ ~candidatesFormed
    /\ candidates' = CandidateSections(sectionList)
    /\ candidatesFormed' = TRUE
    /\ UNCHANGED <<sectionList, statusVars, structVars, resolveVars, flowVars,
                   paramVars, endpointVars, engineVars, scanVars, cardVars,
                   nameVars,
                   blockVars,
                   tableVars,
                   linkVars,
                   listVars,
                   simVars,
                   spanVars,
                   uploadVars,
                   sendVars>>

NextChild == FormCandidates

SpecChild == InitChild /\ [][NextChild]_vars

(***************************************************************************)
(* The blocks of every section content of up to MaxBlockLines lines, with  *)
(* delimiter lines of DelimiterLen to MaxDelimiterLen marker characters    *)
(* (a line that starts with "=" is a heading and in no section's content). *)
(***************************************************************************)
ContentLines ==
    {TextLine, SourceLine, MkLine("delim", DelimiterLen, ".")}
    \cup {MkLine("delim", n, "-") : n \in DelimiterLen..MaxDelimiterLen}

InitBlocks ==
    /\ blockLines \in SeqsUpTo(ContentLines, MaxBlockLines)
    /\ blocks = <<>>
    /\ blocksExtracted = FALSE
    /\ StatusIdle
    /\ StructIdle
    /\ ResolveIdle
    /\ FlowIdle
    /\ ParamsIdle
    /\ EndpointsIdle
    /\ EngineIdle
    /\ ScanIdle
    /\ CardsIdle
    /\ NameIdle
    /\ ChildIdle
    /\ TablesIdle
    /\ LinksIdle
    /\ ListsIdle
    /\ SimIdle
    /\ SpanIdle
    /\ UploadIdle
    /\ SendIdle

ExtractBlocksOfContent ==
    /\ ~blocksExtracted
    /\ blocks' = ExtractBlocks(blockLines)
    /\ blocksExtracted' = TRUE
    /\ UNCHANGED <<blockLines, statusVars, structVars, resolveVars, flowVars,
                   paramVars, endpointVars, engineVars, scanVars, cardVars,
                   nameVars, childVars,
                   tableVars,
                   linkVars,
                   listVars,
                   simVars,
                   spanVars,
                   uploadVars,
                   sendVars>>

NextBlocks == ExtractBlocksOfContent

SpecBlocks == InitBlocks /\ [][NextBlocks]_vars

(***************************************************************************)
(* The table issues of every text of up to MaxTableLines lines with table  *)
(* delimiters and rows of up to MaxCells cells.                            *)
(***************************************************************************)
TableTexts == {TextLine, TableDelimiter} \cup {Row(n) : n \in 1..MaxCells}

InitTables ==
    /\ tableLines \in SeqsUpTo(TableTexts, MaxTableLines)
    /\ tableIssues = <<>>
    /\ tablesValidated = FALSE
    /\ StatusIdle
    /\ StructIdle
    /\ ResolveIdle
    /\ FlowIdle
    /\ ParamsIdle
    /\ EndpointsIdle
    /\ EngineIdle
    /\ ScanIdle
    /\ CardsIdle
    /\ NameIdle
    /\ ChildIdle
    /\ BlocksIdle
    /\ LinksIdle
    /\ ListsIdle
    /\ SimIdle
    /\ SpanIdle
    /\ UploadIdle
    /\ SendIdle

ValidateTablesOfText ==
    /\ ~tablesValidated
    /\ tableIssues' = ValidateTables(tableLines)
    /\ tablesValidated' = TRUE
    /\ UNCHANGED <<tableLines, statusVars, structVars, resolveVars, flowVars,
                   paramVars, endpointVars, engineVars, scanVars, cardVars,
                   nameVars, childVars, blockVars,
                   linkVars,
                   listVars,
                   simVars,
                   spanVars,
                   uploadVars,
                   sendVars>>

NextTables == ValidateTablesOfText

SpecTables == InitTables /\ [][NextTables]_vars

(***************************************************************************)
(* The internal links of every text of up to MaxLinkLines lines over two   *)
(* anchor names.                                                           *)
(***************************************************************************)
AnchorNames == {"intro", "usage"}

LinkTexts ==
    {TextLine} \cup {AnchorLine(a) : a \in AnchorNames}
               \cup {XrefLine(a) : a \in AnchorNames}
               \cup {XrefTextLine(a) : a \in AnchorNames}

InitLinks ==
    /\ linkLines \in SeqsUpTo(LinkTexts, MaxLinkLines)
    /\ linkIssues = {}
    /\ linksValidated = FALSE
    /\ StatusIdle
    /\ StructIdle
    /\ ResolveIdle
    /\ FlowIdle
    /\ ParamsIdle
    /\ EndpointsIdle
    /\ EngineIdle
    /\ ScanIdle
    /\ CardsIdle
    /\ NameIdle
    /\ ChildIdle
    /\ BlocksIdle
    /\ TablesIdle
    /\ ListsIdle
    /\ SimIdle
    /\ SpanIdle
    /\ UploadIdle
    /\ SendIdle

ValidateLinksOfText ==
    /\ ~linksValidated
    /\ linkIssues' = BrokenLinkIssues(linkLines)
    /\ linksValidated' = TRUE
    /\ UNCHANGED <<linkLines, statusVars, structVars, resolveVars, flowVars,
                   paramVars, endpointVars, engineVars, scanVars, cardVars,
                   nameVars, childVars, blockVars, tableVars,
                   listVars,
                   simVars,
                   spanVars,
                   uploadVars,
                   sendVars>>

NextLinks == ValidateLinksOfText

SpecLinks == InitLinks /\ [][NextLinks]_vars

(***************************************************************************)
(* The list issues of every text of up to MaxListLines lines.              *)
(***************************************************************************)
ListTexts == {TextLine, BlankLine, BulletItem, NumberItem}

InitLists ==
    /\ listLines \in SeqsUpTo(ListTexts, MaxListLines)
    /\ listIssues = <<>>
    /\ listsValidated = FALSE
    /\ StatusIdle
    /\ StructIdle
    /\ ResolveIdle
    /\ FlowIdle
    /\ ParamsIdle
    /\ EndpointsIdle
    /\ EngineIdle
    /\ ScanIdle
    /\ CardsIdle
    /\ NameIdle
    /\ ChildIdle
    /\ BlocksIdle
    /\ TablesIdle
    /\ LinksIdle
    /\ SimIdle
    /\ SpanIdle
    /\ UploadIdle
    /\ SendIdle

ValidateListsOfText ==
    /\ ~listsValidated
    /\ listIssues' = ValidateLists(listLines)
    /\ listsValidated' = TRUE
    /\ UNCHANGED <<listLines, statusVars, structVars, resolveVars, flowVars,
                   paramVars, endpointVars, engineVars, scanVars, cardVars,
                   nameVars, childVars, blockVars, tableVars, linkVars,
                   simVars,
                   spanVars,
                   uploadVars,
                   sendVars>>

NextLists == ValidateListsOfText

SpecLists == InitLists /\ [][NextLists]_vars

(***************************************************************************)
(* Stage 3 alone: a Java file with class Foo and methods run and stop      *)
(* against up to MaxSimDocs documents that name class Foo or none, have    *)
(* sections on none, one or both of the methods, and are of no known       *)
(* language or of Python.                                                  *)
(***************************************************************************)
SimCodeFiles ==
    [lang : {"JAVA"}, base : {"Foo"}, classes : {<<"Foo">>},
     methods : {{"run"}, {"run", "stop"}}]

SimDocs ==
    [detected_language : {None}, prefix : {"", "py_"}, base : {"Other"},
     title_class : {None, "Foo"}, content_class : {None},
     methods : {{}, {"run"}, {"run", "stop"}}]

InitSim ==
    /\ simCode \in SimCodeFiles
    /\ simDocs \in SeqsUpTo(SimDocs, MaxSimDocs)
    /\ best = Unresolved
    /\ StatusIdle
    /\ StructIdle
    /\ ResolveIdle
    /\ FlowIdle
    /\ ParamsIdle
    /\ EndpointsIdle
    /\ EngineIdle
    /\ ScanIdle
    /\ CardsIdle
    /\ NameIdle
    /\ ChildIdle
    /\ BlocksIdle
    /\ TablesIdle
    /\ LinksIdle
    /\ ListsIdle
    /\ SpanIdle
    /\ UploadIdle
    /\ SendIdle

RunFindDocByContentSimilarity ==
    /\ best = Unresolved
    /\ best' = IF FindDocByContentSimilarity(simCode, simDocs) # 0
               THEN Found(3, FindDocByContentSimilarity(simCode, simDocs))
               ELSE NotFound
    /\ UNCHANGED <<simCode, simDocs, statusVars, structVars, resolveVars, flowVars,
                   paramVars, endpointVars, engineVars, scanVars, cardVars,
                   nameVars, childVars, blockVars, tableVars, linkVars,
                   listVars,
                   spanVars,
                   uploadVars,
                   sendVars>>

NextSim == RunFindDocByContentSimilarity

SpecSim == InitSim /\ [][NextSim]_vars

(***************************************************************************)
(* One construct of a file of up to MaxSpanLines lines.  A Java construct  *)
(* starts at a line that opens a brace or has the whole body on it, or has *)
(* no position (line_start = 0); a Python function starts at a line of     *)
(* code, and its ast gives the end line or, on an old interpreter, none.   *)
(***************************************************************************)
JavaLines ==
    {JavaLine(kind) : kind \in {"open", "stmt", "close", "endsclose", "closecomment"}}

PythonLines == {BlankLine} \cup {PythonLine(indent) : indent \in 0..MaxIndent}

NonEmptySeqs(S, n) == SeqsUpTo(S, n) \ {<<>>}

InitSpan ==
    /\ construct \in {"java_method", "java_class", "python_function"}
    /\ spanLines \in IF construct = "python_function"
                     THEN NonEmptySeqs(PythonLines, MaxSpanLines)
                     ELSE NonEmptySeqs(JavaLines, MaxSpanLines)
    /\ spanStart \in
           IF construct = "python_function"
           THEN {n \in DOMAIN spanLines : spanLines[n].kind = "py"}
           ELSE {0} \cup {n \in DOMAIN spanLines :
                             spanLines[n].kind \in {"open", "endsclose"}}
    /\ endLineno \in IF construct = "python_function"
                     THEN {0} \cup spanStart..Len(spanLines)
                     ELSE {0}
    /\ spanEnd = 0
    /\ spanParsed = FALSE
    /\ StatusIdle
    /\ StructIdle
    /\ ResolveIdle
    /\ FlowIdle
    /\ ParamsIdle
    /\ EndpointsIdle
    /\ EngineIdle
    /\ ScanIdle
    /\ CardsIdle
    /\ NameIdle
    /\ ChildIdle
    /\ BlocksIdle
    /\ TablesIdle
    /\ LinksIdle
    /\ ListsIdle
    /\ SimIdle
    /\ UploadIdle
    /\ SendIdle

ParseMethod ==
    /\ ~spanParsed
    /\ construct = "java_method"
    /\ spanEnd' = JavaMethodEnd(spanLines, spanStart)
    /\ spanParsed' = TRUE
    /\ UNCHANGED <<construct, spanLines, spanStart, endLineno, statusVars, structVars,
                   resolveVars, flowVars, paramVars, endpointVars, engineVars,
                   scanVars, cardVars, nameVars, childVars, blockVars, tableVars,
                   linkVars, listVars, simVars,
                   uploadVars,
                   sendVars>>

ParseClass ==
    /\ ~spanParsed
    /\ construct = "java_class"
    /\ spanEnd' = JavaClassEnd(spanLines, spanStart)
    /\ spanParsed' = TRUE
    /\ UNCHANGED <<construct, spanLines, spanStart, endLineno, statusVars, structVars,
                   resolveVars, flowVars, paramVars, endpointVars, engineVars,
                   scanVars, cardVars, nameVars, childVars, blockVars, tableVars,
                   linkVars, listVars, simVars,
                   uploadVars,
                   sendVars>>

ParseFunctionSpan ==
    /\ ~spanParsed
    /\ construct = "python_function"
    /\ spanEnd' = PythonFunctionEnd(spanLines, spanStart, endLineno)
    /\ spanParsed' = TRUE
    /\ UNCHANGED <<construct, spanLines, spanStart, endLineno, statusVars, structVars,
                   resolveVars, flowVars, paramVars, endpointVars, engineVars,
                   scanVars, cardVars, nameVars, childVars, blockVars, tableVars,
                   linkVars, listVars, simVars,
                   uploadVars,
                   sendVars>>

NextSpan == ParseMethod \/ ParseClass \/ ParseFunctionSpan

SpecSpan == InitSpan /\ [][NextSpan]_vars

(***************************************************************************)
(* controllers/validation_controller.py: POST /validate on one uploaded    *)
(* file of up to MaxUploadLines lines.  doc_parser and rule_engine have a  *)
(* syntax validator each, with a memo of checked URLs each; the network    *)
(* answers the two of them as it likes.                                    *)
(***************************************************************************)
UploadLines ==
    {Heading(1, "Guide"), Heading(3, "Deep"), TextLine,
     MkLine("delim", DelimiterLen, "-"), UrlLine("http://a.example")}

Answer(status_code, detail) == [status_code |-> status_code, detail |-> detail]

InitUpload ==
    /\ upload \in SeqsUpTo(UploadLines, MaxUploadLines)
    /\ asciidoctor \in Asciidoctor
    /\ parser_checked_urls = <<>>
    /\ parserNetwork = <<>>
    /\ uploadResponse = NoAnswer
    /\ checked_urls = <<>>
    /\ parsedDoc = NoDocument
    /\ lastValidated = None
    /\ cleanRuns = 0
    /\ network = <<>>
    /\ StatusIdle
    /\ StructIdle
    /\ ResolveIdle
    /\ FlowIdle
    /\ ParamsIdle
    /\ EndpointsIdle
    /\ ScanIdle
    /\ CardsIdle
    /\ NameIdle
    /\ ChildIdle
    /\ BlocksIdle
    /\ TablesIdle
    /\ LinksIdle
    /\ ListsIdle
    /\ SimIdle
    /\ SpanIdle
    /\ SendIdle

\* validate_documentation, lines 56-133: the extension, validate_syntax on the
\* raw text, parse, validate on the parsed document, the format of the answer.
ValidateDocumentation ==
    /\ uploadResponse = NoAnswer
    /\ \E adoc \in BOOLEAN, format \in {"json", "summary", "xml"},
          parser_answers \in [Urls -> BOOLEAN], answers \in [Urls -> BOOLEAN] :
         IF ~adoc
         THEN /\ uploadResponse' = Answer(400, "extension")
              /\ UNCHANGED <<parser_checked_urls, parserNetwork, parsedDoc,
                             checked_urls, network, statusVars>>
         ELSE LET errors == SyntaxValidate(upload, asciidoctor, parser_checked_urls,
                                           parser_answers)
                  parsed_doc == ParseAsciidoc(upload)
                  syntax_issues == EngineIssues(parsed_doc, asciidoctor, checked_urls,
                                                answers)
              IN  /\ parser_checked_urls' =
                         CheckedUrlsAfter(upload, parser_checked_urls, parser_answers)
                  /\ parserNetwork' = parser_answers
                  /\ IF errors # <<>>
                     THEN /\ uploadResponse' = Answer(400, "syntax")
                          /\ UNCHANGED <<statusVars, parsedDoc, checked_urls, network>>
                     ELSE /\ parsedDoc' = parsed_doc
                          /\ allIssues' = syntax_issues
                          /\ report' = Validate(syntax_issues)
                          /\ checked_urls' =
                                 EngineCheckedUrls(parsed_doc, checked_urls, answers)
                          /\ network' = answers
                          /\ uploadResponse' =
                                 IF format \in {"json", "summary"}
                                 THEN Answer(200, format)
                                 ELSE Answer(400, "format")
    /\ UNCHANGED <<upload, asciidoctor, lastValidated, cleanRuns, structVars,
                   resolveVars, flowVars, paramVars, endpointVars,
                   scanVars, cardVars, nameVars, childVars, blockVars, tableVars,
                   linkVars, listVars, simVars, spanVars,
                   sendVars>>

NextUpload == ValidateDocumentation

SpecUpload == InitUpload /\ [][NextUpload]_vars

(***************************************************************************)
(* kafka-utils/src/core/producer.py: one call of send_message, with        *)
(* max_retries from -1 to MaxRetries.  send_and_wait returns when the      *)
(* broker acknowledged the message, raises a KafkaError with the message   *)
(* not in the topic (lost), raises a KafkaError with the message in the    *)
(* topic and the acknowledgement lost (unacknowledged), or raises another  *)
(* exception; json.dumps raising is another exception too.                 *)
(***************************************************************************)
SendOutcomes == {"acknowledged", "lost", "unacknowledged", "exception"}

InitSend ==
    /\ producer \in BOOLEAN
    /\ writable \in BOOLEAN
    /\ message_is_dict \in BOOLEAN
    /\ max_retries \in (-1)..MaxRetries
    /\ retries = 0
    /\ metrics = NoMetrics
    /\ acknowledged = 0
    /\ delivered = 0
    /\ sendState = "called"
    /\ StatusIdle
    /\ StructIdle
    /\ ResolveIdle
    /\ FlowIdle
    /\ ParamsIdle
    /\ EndpointsIdle
    /\ EngineIdle
    /\ ScanIdle
    /\ CardsIdle
    /\ NameIdle
    /\ ChildIdle
    /\ BlocksIdle
    /\ TablesIdle
    /\ LinksIdle
    /\ ListsIdle
    /\ SimIdle
    /\ SpanIdle
    /\ UploadIdle

\* send_message, lines 183-193: connect if there is no producer, the access
\* to the topic, the type of the message, retries = 0.
SendMessageChecks ==
    /\ sendState = "called"
    /\ \E connected \in BOOLEAN :
         /\ producer' = TRUE
         /\ sendState' = IF ~producer /\ ~connected THEN "ConnectionError"
                         ELSE IF ~writable THEN "PermissionError"
                         ELSE IF ~message_is_dict THEN "ValueError"
                         ELSE "loop"
    /\ retries' = 0
    /\ UNCHANGED <<writable, message_is_dict, max_retries, metrics, acknowledged,
                   delivered, statusVars, structVars, resolveVars, flowVars,
                   paramVars, endpointVars, engineVars, scanVars, cardVars,
                   nameVars, childVars, blockVars, tableVars, linkVars, listVars,
                   simVars, spanVars, uploadVars>>

\* send_message, lines 194-239: one turn of the loop.
SendAttempt ==
    /\ sendState = "loop"
    /\ retries < max_retries
    /\ \E outcome \in SendOutcomes :
         /\ delivered' = IF outcome \in {"acknowledged", "unacknowledged"}
                         THEN delivered + 1 ELSE delivered
         /\ acknowledged' = IF outcome = "acknowledged"
                            THEN acknowledged + 1 ELSE acknowledged
         /\ retries' = IF outcome \in {"lost", "unacknowledged"}
                       THEN retries + 1 ELSE retries
         /\ metrics' =
                CASE outcome = "acknowledged" ->
                       [metrics EXCEPT !.messages_sent = @ + 1]
                  [] outcome = "exception" ->
                       [metrics EXCEPT !.errors = @ + 1]
                  [] OTHER ->
                       [metrics EXCEPT !.retries = @ + 1,
                                       !.errors = IF retries + 1 = max_retries
                                                  THEN @ + 1 ELSE @]
         /\ sendState' =
                CASE outcome = "acknowledged" -> "returned"
                  [] outcome = "exception" -> "Exception"
                  [] OTHER -> IF retries + 1 = max_retries
                              THEN "ConnectionError" ELSE "loop"
    /\ UNCHANGED <<producer, writable, message_is_dict, max_retries, statusVars,
                   structVars, resolveVars, flowVars,
                   paramVars, endpointVars, engineVars, scanVars, cardVars,
                   nameVars, childVars, blockVars, tableVars, linkVars, listVars,
                   simVars, spanVars, uploadVars>>

\* send_message, line 194: the test of the while fails and the function ends.
SendLoopEnds ==
    /\ sendState = "loop"
    /\ ~(retries < max_retries)
    /\ sendState' = "returned"
    /\ UNCHANGED <<producer, writable, message_is_dict, max_retries, retries,
                   metrics, acknowledged, delivered, statusVars,
                   structVars, resolveVars, flowVars,
                   paramVars, endpointVars, engineVars, scanVars, cardVars,
                   nameVars, childVars, blockVars, tableVars, linkVars, listVars,
                   simVars, spanVars, uploadVars>>

NextSend == SendMessageChecks \/ SendAttempt \/ SendLoopEnds

SpecSend == InitSend /\ [][NextSend]_vars

(***************************************************************************)
(* Properties.                                                             *)
(***************************************************************************)
CountIssues(iss, prefix) == Cardinality({k \in DOMAIN iss : iss[k].id[1] = prefix})

\* C1: validate takes the first of these that holds, in this order: no issues,
\* VALID; no SYNTAX issue among the uncorrected ones, VALID_WITH_WARNINGS; every
\* issue corrected, FULLY_CORRECTED; some corrected, PARTIALLY_CORRECTED; else
\* INVALID.  One uncorrected SYNTAX issue with one corrected issue is
\* PARTIALLY_CORRECTED.
C1_StatusOrder ==
    Returned(report) =>
        LET uncorrected == {k \in DOMAIN allIssues : ~allIssues[k].corrected}
            corrected == DOMAIN allIssues \ uncorrected
            syntaxLeft == \E k \in uncorrected : allIssues[k].type = "SYNTAX"
        IN  /\ (allIssues = <<>>) => report.status = "VALID"
            /\ (allIssues # <<>> /\ ~syntaxLeft) => report.status = "VALID_WITH_WARNINGS"
            /\ (syntaxLeft /\ uncorrected = {}) => report.status = "FULLY_CORRECTED"
            /\ (syntaxLeft /\ corrected # {}) => report.status = "PARTIALLY_CORRECTED"
            /\ (syntaxLeft /\ corrected = {}) => report.status = "INVALID"
            /\ (/\ Len(allIssues) = 2
                /\ Cardinality(corrected) = 1
                /\ syntaxLeft) => report.status = "PARTIALLY_CORRECTED"

C1_Witness ==
    /\ Returned(report)
    /\ Len(allIssues) = 2
    /\ \E k \in 1..2 : allIssues[k].type = "SYNTAX" /\ ~allIssues[k].corrected
    /\ \E k \in 1..2 : allIssues[k].corrected
    /\ report.status = "PARTIALLY_CORRECTED"

HeadingLines(lines) == {i \in DOMAIN lines : HeaderMatch(lines[i])}

\* Adjacent heading pairs: two heading lines with no heading line between them.
AdjacentHeadings(lines) ==
    {p \in HeadingLines(lines) \X HeadingLines(lines) :
        /\ p[1] < p[2]
        /\ ~\E k \in HeadingLines(lines) : p[1] < k /\ k < p[2]}

\* C4 as stated: the number of heading-level-skip issues equals the number of
\* adjacent heading pairs whose levels differ by more than one.
C4_SkipsEqualDifferingPairs ==
    validated =>
        CountIssues(syntaxIssues, "SYNTAX-HEADER-LEVEL")
            = Cardinality({p \in AdjacentHeadings(content) :
                              \/ content[p[2]].n > content[p[1]].n + 1
                              \/ content[p[1]].n > content[p[2]].n + 1})

\* C4 as amended: the number of heading-level-skip issues equals the number of
\* adjacent heading pairs in which the later heading is more than one level
\* deeper than the earlier one.
C4_SkipsEqualDeeperPairs ==
    validated =>
        CountIssues(syntaxIssues, "SYNTAX-HEADER-LEVEL")
            = Cardinality({p \in AdjacentHeadings(content) :
                              content[p[2]].n > content[p[1]].n + 1})

C4_Witness ==
    /\ validated
    /\ CountIssues(syntaxIssues, "SYNTAX-HEADER-LEVEL") = 1
    /\ \E p \in AdjacentHeadings(content) :
          /\ p[2] > p[1] + 1
          /\ content[p[2]].n > content[p[1]].n + 1

\* The delimiter lines of a text, and the text's blocks correctly paired: the
\* delimiter lines come in pairs, an opening line and the same line closing it.
DelimiterLines(lines) == {i \in DOMAIN lines : StartsWithDelimiter(lines[i])}

DelimiterRank(lines, i) == Cardinality({j \in DelimiterLines(lines) : j <= i})

CorrectlyPaired(lines) ==
    /\ Cardinality(DelimiterLines(lines)) % 2 = 0
    /\ \A i, j \in DelimiterLines(lines) :
          (DelimiterRank(lines, i) % 2 = 1 /\ DelimiterRank(lines, j) = DelimiterRank(lines, i) + 1)
              => lines[i] = lines[j]

\* C5: a text whose block opening markers are each followed by the matching
\* closing marker yields no nested-block and no unterminated-block issue.
C5_PairedBlocksNoIssues ==
    (validated /\ CorrectlyPaired(content)) =>
        /\ CountIssues(syntaxIssues, "SYNTAX-CODE-BLOCK-NESTED") = 0
        /\ CountIssues(syntaxIssues, "SYNTAX-CODE-BLOCK-UNCLOSED") = 0

\* A document is language-compatible with a code file when their languages are
\* equal or one of the two is not determined.
LanguageCompatible(code, doc) ==
    \/ code.lang = None
    \/ DetectDocLanguageFromStructure(doc) = None
    \/ code.lang = DetectDocLanguageFromStructure(doc)

\* The documents whose resolved class name is the code file's primary class
\* and which are language-compatible with the code file.
ClassNameDocs(code, ds) ==
    {k \in DOMAIN ds :
        /\ GetPrimaryClassName(code) # None
        /\ ExtractClassName(ds[k]) = GetPrimaryClassName(code)
        /\ LanguageCompatible(code, ds[k])}

Overlap(code, doc) ==
    Cardinality(CodeIdentifiers(code) \cap ExtractIdentifiersFromDoc(doc))

\* C9: when some document's resolved class name is the code file's primary
\* class name and that document is language-compatible, the resolver returns such
\* a document, found by Stage 1, whatever the other documents' identifier
\* overlap or file names; Stage 2 or 3 answers only when there is no such
\* document.
C9_Stage1Precedence ==
    found # Unresolved =>
        /\ ClassNameDocs(codeFile, docStructures) # {}
              => found.stage = 1 /\ found.doc \in ClassNameDocs(codeFile, docStructures)
        /\ found.stage \in {2, 3} => ClassNameDocs(codeFile, docStructures) = {}

C9_Witness ==
    /\ found # Unresolved
    /\ found.stage = 1
    /\ found.doc \in ClassNameDocs(codeFile, docStructures)
    /\ \E k \in DOMAIN docStructures :
          /\ k \notin ClassNameDocs(codeFile, docStructures)
          /\ Overlap(codeFile, docStructures[k]) > Overlap(codeFile, docStructures[found.doc])
          /\ Lower(docStructures[k].base) = Lower(codeFile.base)
          /\ Lower(docStructures[found.doc].base) # Lower(codeFile.base)

\* C3: a report of a code-aware or project-level validation that holds a
\* SEMANTIC issue has status INVALID, whatever else it holds and whatever the
\* single-file derivation gave.
C3_SemanticIsInvalid ==
    (/\ Returned(report)
     /\ request \in {"validate-with-code", "validate-project"}
     /\ HasSemantic(report.issues) \/ HasSemantic(report.corrections))
        => report.status = "INVALID"

C3_Witness ==
    /\ Returned(report)
    /\ request = "validate-with-code"
    /\ Validate(allIssues).status = "VALID"
    /\ HasSemantic(report.issues)
    /\ \E k \in DOMAIN report.issues : report.issues[k].type = "COMPLETENESS"
    /\ report.status = "INVALID"

\* The arguments of funcDef that _parse_function keeps as parameters.
KeptArgs ==
    {i \in DOMAIN funcDef.args :
        ~(funcDef.is_method /\ funcDef.args[i].arg \in {"self", "cls"})}

HasDefault(i) == Len(funcDef.args) - i < funcDef.defaults

DocumentedAs(name) == {k \in DOMAIN docParameters : docParameters[k].name = name}

IssuesAbout(iss, prefix, text) ==
    {k \in DOMAIN iss : iss[k].id[1] = prefix /\ iss[k].issue = text}

\* C10: a parameter of the code that has a type and a default value, and
\* that the document gives with the same name, the same type and as
\* required, gets exactly one SEMANTIC issue about the required/optional
\* mismatch and no issue about its type.
C10_DefaultAgainstRequired ==
    paramsMatched =>
        \A i \in KeptArgs :
            LET name == funcDef.args[i].arg
                text == <<name, funcDef.name>>
            IN  (/\ ParamType(funcDef.args[i].annotation) # None
                 /\ HasDefault(i)
                 /\ DocumentedAs(name) # {}
                 /\ \A k \in DocumentedAs(name) :
                        /\ docParameters[k].type = ParamType(funcDef.args[i].annotation)
                        /\ docParameters[k].required)
                => /\ Cardinality(IssuesAbout(paramIssues, "SEMANTIC-PARAM-002", text)) = 1
                   /\ \A k \in IssuesAbout(paramIssues, "SEMANTIC-PARAM-002", text) :
                          paramIssues[k].type = "SEMANTIC"
                   /\ IssuesAbout(paramIssues, "SEMANTIC-PARAM-001", text) = {}

C10_Witness ==
    /\ paramsMatched
    /\ \E i \in KeptArgs :
           /\ funcDef.args[i].arg = "count"
           /\ funcDef.args[i].annotation = AstName("int")
           /\ HasDefault(i)
           /\ DocumentedAs("count") # {}
           /\ \A k \in DocumentedAs("count") :
                  docParameters[k].type = "int" /\ docParameters[k].required
    /\ Len(funcDef.args) = 2
    /\ funcDef.defaults = 1
    /\ Cardinality(IssuesAbout(paramIssues, "SEMANTIC-PARAM-002",
                               <<"count", "list_users">>)) = 1

\* The endpoints of codeStructure, each one verb and one path: the methods of
\* the controllers, under the controller's base path, and the functions.
CodeEndpointsOf(code) ==
    {<<BasePathFrom(code.classes[c].annotations, 1, "") \o code.classes[c].methods[1].path,
       code.classes[c].methods[1].http_method>> :
        c \in {d \in DOMAIN code.classes :
                 /\ code.classes[d].is_controller
                 /\ code.classes[d].methods # <<>>
                 /\ code.classes[d].methods[1].is_api_endpoint}}
    \cup
    {<<code.functions[f].path, code.functions[f].http_method>> :
        f \in {g \in DOMAIN code.functions : code.functions[g].is_api_endpoint}}

SectionTitles(doc) == {doc.sections[k].title : k \in DOMAIN doc.sections}

\* C7: with the endpoint GET /users/{id} in the code and a section titled
\* "GET /users/{id}" in the parsed document, match_api_endpoints has no issue
\* for that endpoint.
C7_TitledSectionDocumentsEndpoint ==
    (/\ apiMatched
     /\ docStructure = ParseAsciidoc(docLines)
     /\ <<"/users/{id}", "GET">> \in CodeEndpointsOf(codeStructure)
     /\ "GET /users/{id}" \in SectionTitles(docStructure))
        => \A k \in DOMAIN apiIssues : apiIssues[k].issue[1] # "/users/{id}"

DocumentedPaths(doc) ==
    {SectionPath(doc.sections[k]) :
        k \in {j \in DOMAIN doc.sections :
                 "path" \in DOMAIN doc.sections[j] \/ "url" \in DOMAIN doc.sections[j]}}

\* C8: every endpoint of the code (one verb, one path) that the document
\* does not describe gets exactly one issue, of type SEMANTIC, that names its
\* path, also when endpoints share a path and differ in the verb.
C8_OneIssuePerUndocumentedEndpoint ==
    apiMatched =>
        \A e \in CodeEndpointsOf(codeStructure) :
            e[1] \notin DocumentedPaths(docStructure)
                => /\ Cardinality({k \in DOMAIN apiIssues : apiIssues[k].issue = e}) = 1
                   /\ \A k \in DOMAIN apiIssues :
                          apiIssues[k].issue = e => apiIssues[k].type = "SEMANTIC"

\* C6: once validate has found no issue in a document, every later validate
\* of that document on the same engine returns VALID with no issues and no
\* corrections, whatever was validated in between.
C6_CleanStaysClean ==
    (lastValidated = "document" /\ cleanRuns > 0)
        => /\ report.status = "VALID"
           /\ report.issues = <<>>
           /\ report.corrections = <<>>

C6_Witness ==
    /\ lastValidated = "document"
    /\ cleanRuns >= 2
    /\ report.status = "VALID"
    /\ ExternalUrls(ExtractOriginalContent(parsedDoc)) = {"http://b.example"}
    /\ "http://a.example" \in DOMAIN checked_urls
    /\ ~checked_urls["http://a.example"]

ProjectReturned == Returned(report) /\ request = "validate-project"

\* No stage of the resolution finds a document for code file c.
NoStageFinds(c) ==
    /\ \/ GetPrimaryClassName(codeStructures[c]) = None
       \/ Stage1Docs(codeStructures[c], docStructures) = {}
    /\ Stage2Docs(codeStructures[c], docStructures) = {}
    /\ \/ codeStructures[c].lang = None
       \/ FindDocByContentSimilarity(codeStructures[c], docStructures) = 0

NoDocumentationIssues(c) ==
    {k \in DOMAIN report.issues :
        /\ report.issues[k].id[1] = "COMPLETENESS-FILE-001"
        /\ report.issues[k].issue = <<CodePath(c)>>}

\* C11: in a project run a code file for which no stage finds a document has
\* exactly one COMPLETENESS issue "no documentation" in the report, and a
\* code file with a resolved document has none.
C11_OneIssuePerUnresolvedFile ==
    ProjectReturned =>
        \A c \in DOMAIN codeStructures :
            /\ \A k \in NoDocumentationIssues(c) : report.issues[k].type = "COMPLETENESS"
            /\ Cardinality(NoDocumentationIssues(c)) = IF NoStageFinds(c) THEN 1 ELSE 0

C11_Witness ==
    /\ ProjectReturned
    /\ Len(codeStructures) = 2
    /\ NoStageFinds(1)
    /\ Cardinality(NoDocumentationIssues(1)) = 1
    /\ FindMatchingDoc(codeStructures[2], docStructures).stage = 1
    /\ NoDocumentationIssues(2) = {}

ClassMissingIssues(d) ==
    {k \in DOMAIN report.issues :
        /\ report.issues[k].id[1] = "SEMANTIC-FILE-001"
        /\ report.issues[k].issue[1] = DocPath(d)}

ClassInCode(class_name) ==
    \E c \in DOMAIN codeStructures : \E k \in DOMAIN codeStructures[c].classes :
        codeStructures[c].classes[k] = class_name

\* C12: in a project run a document whose class name is in no class of the
\* code has exactly one SEMANTIC issue "class missing from code" in the
\* report, and a document whose class name is unknown or is in the code has
\* none.
C12_OneIssuePerOrphanDocument ==
    ProjectReturned =>
        \A d \in DOMAIN docStructures :
            /\ \A k \in ClassMissingIssues(d) : report.issues[k].type = "SEMANTIC"
            /\ Cardinality(ClassMissingIssues(d)) =
                   IF /\ ExtractClassName(docStructures[d]) # None
                      /\ ~ClassInCode(ExtractClassName(docStructures[d]))
                   THEN 1 ELSE 0

C12_Witness ==
    /\ ProjectReturned
    /\ Len(docStructures) = 2
    /\ ExtractClassName(docStructures[1]) = "Bar"
    /\ Cardinality(ClassMissingIssues(1)) = 1
    /\ ExtractClassName(docStructures[2]) = "Foo"
    /\ ClassInCode("Foo")
    /\ ClassMissingIssues(2) = {}

\* The files of the directory the scan is for: reached by the walk and of a
\* language the scanner has an analyzer for.
SupportedFiles ==
    {i \in DOMAIN scanFiles :
        /\ recursive \/ ~scanFiles[i].nested
        /\ IF scanner = "SourceCodeAnalyzer" THEN scanFiles[i].ext \in {"py", "java"}
           ELSE scanFiles[i].ext = (IF scanner = "PYTHON" THEN "py" ELSE "java")}

\* C13: a directory scan never aborts because a file fails to parse, and its
\* result has a structure for exactly the supported files that parse,
\* wherever the failing files come in the walk.
C13_ScanSkipsFailures ==
    /\ scanState # "raised"
    /\ scanState = "returned" =>
           scanResult = {CodePath(i) : i \in {j \in SupportedFiles : scanFiles[j].parses}}

C13_Witness ==
    /\ scanState = "returned"
    /\ Len(scanFiles) = 2
    /\ SupportedFiles = {1, 2}
    /\ ~scanFiles[1].parses
    /\ scanFiles[2].parses
    /\ scanResult = {CodePath(2)}



\* C14: the memo of the checked URLs is scoped to one request: what a request
\* returns for the document is what a validator with an empty memo returns
\* for it under the answers the network gave during that request, whatever
\* was validated before.
C14_MemoIsRequestScoped ==
    lastValidated = "document"
        => allIssues = EngineIssues(parsedDoc, asciidoctor, <<>>, network)

\* The memo of an earlier request decides a later one: the network answers
\* for every link of the document, yet the report has the issue of a link
\* that an earlier request found unreachable.
C14_EarlierRequestDecides ==
    /\ lastValidated = "document"
    /\ \A url \in Urls : network[url]
    /\ EngineIssues(parsedDoc, asciidoctor, <<>>, network) = <<>>
    /\ \E k \in DOMAIN allIssues : allIssues[k].id[1] = "SYNTAX-LINK-EXTERNAL"


DeleteAnswered == cardResponse.op = "delete"

\* C15: a DELETE of an id that is not in the table is answered 404, a DELETE
\* that sqlite fails is answered 500, and a DELETE of an id in the table is
\* answered 200 and removes that row and no other.
C15_MissingCardIs404 ==
    DeleteAnswered =>
        /\ cardResponse.db_error
               => cardResponse.status_code = 500 /\ cards = cardsBefore
        /\ (~cardResponse.db_error /\ cardResponse.card_id \notin cardsBefore)
               => cardResponse.status_code = 404 /\ cards = cardsBefore
        /\ (~cardResponse.db_error /\ cardResponse.card_id \in cardsBefore)
               => /\ cardResponse.status_code = 200
                  /\ cards = cardsBefore \ {cardResponse.card_id}

\* What the code does hold to: the deletion of a row of the table.
C15_ExistingCardDeleted ==
    (DeleteAnswered /\ ~cardResponse.db_error /\ cardResponse.card_id \in cardsBefore)
        => /\ cardResponse.status_code = 200
           /\ cards = cardsBefore \ {cardResponse.card_id}

\* The id is not in the table, sqlite does not fail, and the answer is 500.
C15_MissingCardIs500 ==
    /\ DeleteAnswered
    /\ ~cardResponse.db_error
    /\ cardResponse.card_id \notin cardsBefore
    /\ cardsBefore # {}
    /\ cardResponse.status_code = 500


\* C16: the first rule that yields a name decides, and where neither the
\* title's phrasing, nor a section's content phrasing, nor a class declared
\* in a code block yields one, the result is None.
C16_NoGuessedName ==
    Len(extractedName) > 0 =>
        /\ TitleClass(namedDoc) # None => extractedName[1] = TitleClass(namedDoc)
        /\ (TitleClass(namedDoc) = None /\ FirstSectionClass(namedDoc) # None)
               => extractedName[1] = FirstSectionClass(namedDoc)
        /\ (/\ TitleClass(namedDoc) = None
            /\ FirstSectionClass(namedDoc) = None
            /\ DeclaredClass(namedDoc) # None)
               => extractedName[1] = DeclaredClass(namedDoc)
        /\ (/\ TitleClass(namedDoc) = None
            /\ FirstSectionClass(namedDoc) = None
            /\ DeclaredClass(namedDoc) = None)
               => extractedName[1] = None

\* What the code does hold to: the order of the first three rules.
C16_FirstRuleDecides ==
    Len(extractedName) > 0 =>
        /\ TitleClass(namedDoc) # None => extractedName[1] = TitleClass(namedDoc)
        /\ (TitleClass(namedDoc) = None /\ FirstSectionClass(namedDoc) # None)
               => extractedName[1] = FirstSectionClass(namedDoc)
        /\ (/\ TitleClass(namedDoc) = None
            /\ FirstSectionClass(namedDoc) = None
            /\ DeclaredClass(namedDoc) # None)
               => extractedName[1] = DeclaredClass(namedDoc)

\* A document that names no class anywhere gets the name "Calculator", and
\* its methods are filed under it.
C16_CalculatorGuessed ==
    /\ Len(extractedName) = 2
    /\ namedDoc.meta.title = <<"guide">>
    /\ Len(namedDoc.sections) = 1
    /\ namedDoc.sections[1].title = <<"Methods">>
    /\ namedDoc.sections[1].content = <<>>
    /\ extractedName[1] = "Calculator"
    /\ extractedName[2] = <<"Calculator", "run">>


\* Section s lies under container c: deeper than c, after it, and before the
\* next section whose level is at or below that of c.
LiesUnder(s, c) ==
    /\ s.level > c.level
    /\ s.line_number > c.line_number
    /\ \A k \in DOMAIN sectionList :
           (/\ sectionList[k].line_number > c.line_number
            /\ sectionList[k].line_number < s.line_number)
               => sectionList[k].level > c.level

IsContainer(s) ==
    \E k \in DOMAIN FindMethodsContainerSections(sectionList) :
        FindMethodsContainerSections(sectionList)[k] = s

\* C17: where a document has a Methods/API container, every candidate
\* section is a container or lies under one: deeper than it, after it, and
\* before the next section at or below the container's level.
C17_ChildrenLieUnderContainer ==
    (candidatesFormed /\ Len(FindMethodsContainerSections(sectionList)) > 0)
        => \A k \in DOMAIN candidates :
               \/ IsContainer(candidates[k])
               \/ \E j \in DOMAIN sectionList :
                      /\ IsContainer(sectionList[j])
                      /\ LiesUnder(candidates[k], sectionList[j])

\* What the code does hold to: the level and the order.
C17_ChildrenDeeperAndLater ==
    (candidatesFormed /\ Len(FindMethodsContainerSections(sectionList)) > 0)
        => \A k \in DOMAIN candidates :
               \/ IsContainer(candidates[k])
               \/ \E j \in DOMAIN sectionList :
                      /\ IsContainer(sectionList[j])
                      /\ candidates[k].level > sectionList[j].level
                      /\ candidates[k].line_number > sectionList[j].line_number

\* "run" under "Examples", which closed "Methods", is a method candidate.
C17_SiblingsChildTaken ==
    /\ candidatesFormed
    /\ Len(sectionList) = 3
    /\ sectionList[1].title = "Methods" /\ sectionList[1].level = 2
    /\ sectionList[2].title = "Examples" /\ sectionList[2].level = 2
    /\ sectionList[3].title = "run" /\ sectionList[3].level = 3
    /\ \E k \in DOMAIN candidates : candidates[k] = sectionList[3]


\* The pairs of lines that open and close a block: a delimiter line opens a
\* block when none is open, and the next line identical to it closes it.
RECURSIVE PairedFrom(_, _, _, _)
PairedFrom(lines, i, opened, pairs) ==
    IF i > Len(lines) THEN pairs
    ELSE IF opened = 0 /\ StartsWithDelimiter(lines[i])
    THEN PairedFrom(lines, i + 1, i, pairs)
    ELSE IF opened # 0 /\ lines[i] = lines[opened]
    THEN PairedFrom(lines, i + 1, 0, Append(pairs, <<opened, i>>))
    ELSE PairedFrom(lines, i + 1, opened, pairs)

BlockSpans == [k \in DOMAIN blocks |-> <<blocks[k].start_line, blocks[k].end_line>>]

\* C18: the blocks are the paired delimiter lines, one block record for each
\* pair, whatever the length of the delimiter.
C18_OneBlockPerPair ==
    blocksExtracted => BlockSpans = PairedFrom(blockLines, 1, 0, <<>>)

\* What the code does hold to: the same for delimiters of four characters.
C18_OneBlockPerFourCharPair ==
    (/\ blocksExtracted
     /\ \A i \in DOMAIN blockLines :
            blockLines[i].kind = "delim" => blockLines[i].n = DelimiterLen)
        => BlockSpans = PairedFrom(blockLines, 1, 0, <<>>)

\* A pair of five-character delimiter lines yields no block.
C18_LongPairYieldsNothing ==
    /\ blocksExtracted
    /\ blockLines = <<MkLine("delim", DelimiterLen + 1, "-"), TextLine,
                      MkLine("delim", DelimiterLen + 1, "-")>>
    /\ blocks = <<>>

C18_FourCharPairFound ==
    /\ blocksExtracted
    /\ blockLines = <<SourceLine, MkLine("delim", DelimiterLen, "-"), TextLine,
                      MkLine("delim", DelimiterLen, "-")>>
    /\ Len(blocks) = 1
    /\ blocks[1].type = "code"


\* Every table of lines is opened and closed by the delimiter line, and its
\* rows all have as many cells as its first row; cells = 0 while the table
\* has no row yet.
RECURSIVE TablesWellFormedFrom(_, _, _, _)
TablesWellFormedFrom(lines, i, opened, cells) ==
    IF i > Len(lines) THEN ~opened
    ELSE IF lines[i] = TableDelimiter
    THEN TablesWellFormedFrom(lines, i + 1, ~opened, 0)
    ELSE IF opened /\ lines[i].kind = "row"
    THEN /\ cells \in {0, lines[i].n}
         /\ TablesWellFormedFrom(lines, i + 1, opened, lines[i].n)
    ELSE TablesWellFormedFrom(lines, i + 1, opened, cells)

HasTable(lines) == \E i \in DOMAIN lines : lines[i] = TableDelimiter

\* C19: a text whose tables are all opened and closed by the delimiter line,
\* with rows of the same cell count as the first row, has no table issue.
C19_WellFormedTablesNoIssues ==
    (tablesValidated /\ TablesWellFormedFrom(tableLines, 1, FALSE, 0))
        => tableIssues = <<>>

\* A closed table of two rows of two cells has both table issues: the
\* closing delimiter is counted as a row of one cell, and the table is never
\* closed.
C19_ClosedTableReported ==
    /\ tablesValidated
    /\ tableLines = <<TableDelimiter, Row(2), Row(2), TableDelimiter>>
    /\ tableIssues = <<SyntaxIssue("SYNTAX-TABLE-COLUMNS", 4),
                       SyntaxIssue("SYNTAX-TABLE-UNCLOSED", 1)>>

\* Every text with a table delimiter in it has the unclosed-table issue.
C19_EveryTableUnclosed ==
    (tablesValidated /\ HasTable(tableLines))
        => \E k \in DOMAIN tableIssues : tableIssues[k].id[1] = "SYNTAX-TABLE-UNCLOSED"


\* The lines that refer to anchor a, in either form.
ReferencesTo(a) ==
    {i \in DOMAIN linkLines :
        linkLines[i].kind \in {"xref", "xreftext"} /\ linkLines[i].txt = a}

IssueLines == {issue.id[2] : issue \in linkIssues}

\* C20: the references to an anchor, with or without a text, have a SYNTAX
\* issue on one of their lines if and only if the anchor is not declared.
C20_IssueIffUndeclared ==
    linksValidated =>
        \A a \in AnchorNames :
            ReferencesTo(a) # {}
                => ((ReferencesTo(a) \cap IssueLines # {}) <=> a \notin Anchors(linkLines))

\* What the code does hold to: an issue is a SYNTAX issue on a line that
\* refers to an undeclared anchor, and a reference without a text to an
\* undeclared anchor has its issue.
C20_PlainReferencesReported ==
    linksValidated =>
        /\ \A issue \in linkIssues :
               /\ issue.type = "SYNTAX"
               /\ \E a \in AnchorNames \ Anchors(linkLines) : issue.id[2] \in ReferencesTo(a)
        /\ \A a \in AnchorNames \ Anchors(linkLines) :
               (\E i \in ReferencesTo(a) : linkLines[i].kind = "xref")
                   => ReferencesTo(a) \cap IssueLines # {}

\* A reference with a text to an undeclared anchor has no issue.
C20_TextReferenceUnreported ==
    /\ linksValidated
    /\ linkLines = <<AnchorLine("intro"), XrefTextLine("usage")>>
    /\ linkIssues = {}


\* The items whose marker differs from the marker that started their run: a
\* run starts at an item while none is open and ends at a blank line or at
\* any other line that is no item.
RECURSIVE MixedItemsFrom(_, _, _, _)
MixedItemsFrom(lines, i, run, mixed) ==
    IF i > Len(lines) THEN mixed
    ELSE IF lines[i].kind \notin {"ul", "ol"}
    THEN MixedItemsFrom(lines, i + 1, None, mixed)
    ELSE IF run = None THEN MixedItemsFrom(lines, i + 1, lines[i].kind, mixed)
    ELSE IF lines[i].kind # run THEN MixedItemsFrom(lines, i + 1, run, Append(mixed, i))
    ELSE MixedItemsFrom(lines, i + 1, run, mixed)

ListIssueLines == [k \in DOMAIN listIssues |-> listIssues[k].id[2]]

\* C21: the reported lines are the items whose marker differs from the one
\* that started their contiguous run, a run ending at a blank line and at
\* any line that is no list item.
C21_MixedPerContiguousRun ==
    listsValidated => ListIssueLines = MixedItemsFrom(listLines, 1, None, <<>>)

\* What the code does hold to: the same in texts without prose lines, where
\* only a blank line can end a run.
C21_MixedPerBlankSeparatedRun ==
    (listsValidated /\ \A i \in DOMAIN listLines : listLines[i] # TextLine)
        => ListIssueLines = MixedItemsFrom(listLines, 1, None, <<>>)

\* A numbered item after a prose line that interrupted a bulleted list is
\* reported.
C21_InterruptedRunGoesOn ==
    /\ listsValidated
    /\ listLines = <<BulletItem, TextLine, NumberItem>>
    /\ listIssues = <<SyntaxIssue("SYNTAX-LIST-MIXED", 3)>>

C21_BlankEndsRun ==
    /\ listsValidated
    /\ listLines = <<BulletItem, BlankLine, NumberItem, BulletItem>>
    /\ listIssues = <<SyntaxIssue("SYNTAX-LIST-MIXED", 4)>>


\* The detected languages of code and doc are equal, or one of them cannot be
\* determined.
LanguagesAgree(code, doc) ==
    \/ code.lang = None
    \/ DetectDocLanguageFromStructure(doc) = None
    \/ code.lang = DetectDocLanguageFromStructure(doc)

\* C22: a document is language-compatible with the code file exactly when
\* their detected languages are equal or one of them is not determined, and
\* the document that Stage 1 or Stage 2 selects is language-compatible.
C22_StagesLanguageCompatible ==
    found # Unresolved =>
        /\ \A k \in DOMAIN docStructures :
               IsLanguageCompatible(codeFile, docStructures[k])
                   <=> LanguagesAgree(codeFile, docStructures[k])
        /\ found.stage \in {1, 2}
               => LanguagesAgree(codeFile, docStructures[found.doc])

\* Stage 2 passes over a document of the file's name in another language and
\* selects the next one, and Stage 1 did the same with the class name.
C22_Witness ==
    /\ codeFile.lang = "JAVA"
    /\ Len(docStructures) = 2
    /\ docStructures[1].prefix = "py_"
    /\ docStructures[1].base = "foo"
    /\ docStructures[1].title_class = "Foo"
    /\ codeFile.classes = <<"Foo">>
    /\ docStructures[2].prefix = "java_"
    /\ docStructures[2].base = "foo"
    /\ docStructures[2].title_class = None
    /\ docStructures[2].content_class = None
    /\ found = Found(2, 2)


\* The documents Stage 3 scores: those not known to be of another language.
SimCandidates ==
    {k \in DOMAIN simDocs :
        \/ DetectDocLanguageFromStructure(simDocs[k]) = None
        \/ DetectDocLanguageFromStructure(simDocs[k]) = simCode.lang}

SimScore(k) ==
    Cardinality(CodeIdentifiers(simCode) \cap ExtractIdentifiersFromDoc(simDocs[k]))

\* C23: Stage 3 selects a candidate of the largest score, the first of them
\* in the order of the documents, and none if no candidate has an
\* identifier in common with the code.
C23_LargestIntersectionFirstSeen ==
    best # Unresolved =>
        IF \E k \in SimCandidates : SimScore(k) > 0
        THEN /\ best.stage = 3
             /\ best.doc \in SimCandidates
             /\ \A k \in SimCandidates : SimScore(k) <= SimScore(best.doc)
             /\ \A k \in SimCandidates :
                    SimScore(k) = SimScore(best.doc) => best.doc <= k
        ELSE best = NotFound

\* Of three candidates of the scores 1, 3 and 3 the second is selected.
C23_Witness ==
    /\ best = Found(3, 2)
    /\ Len(simDocs) = 3
    /\ SimCandidates = {1, 2, 3}
    /\ SimScore(1) = 1
    /\ SimScore(2) = 3
    /\ SimScore(3) = 3


\* The inference finds an end boundary after the line the construct starts at.
BoundaryFound ==
    CASE construct = "java_method" ->
             \E n \in DOMAIN spanLines : n > spanStart /\ EndsWithBrace(spanLines[n])
      [] construct = "java_class" ->
             \E n \in DOMAIN spanLines : n > spanStart /\ IsBrace(spanLines[n])
      [] OTHER ->
             \/ endLineno # 0
             \/ \E n \in DOMAIN spanLines :
                    /\ n > spanStart
                    /\ spanLines[n].kind = "py"
                    /\ spanLines[n].n <= spanLines[spanStart].n

\* C24: the end line of a parsed construct is not smaller than its start
\* line, and it is the last line of the file where no boundary is found.
C24_EndDefaultsToRestOfFile ==
    spanParsed =>
        /\ spanEnd >= spanStart
        /\ ~BoundaryFound => spanEnd = Len(spanLines)

\* What the code does hold to: the same for the functions of Python.
C24_PythonEndDefaultsToRestOfFile ==
    (spanParsed /\ construct = "python_function") =>
        /\ spanEnd >= spanStart
        /\ ~BoundaryFound => spanEnd = Len(spanLines)

\* A Java method whose closing brace is followed by a comment ends at line 0.
C24_JavaMethodEndsAtZero ==
    /\ spanParsed
    /\ construct = "java_method"
    /\ spanLines = <<JavaLine("open"), JavaLine("stmt"), JavaLine("closecomment")>>
    /\ spanStart = 1
    /\ spanEnd = 0

C24_PythonRestOfFile ==
    /\ spanParsed
    /\ construct = "python_function"
    /\ spanLines = <<PythonLine(0), PythonLine(1), BlankLine>>
    /\ spanStart = 1
    /\ endLineno = 0
    /\ spanEnd = 3


C25_ApiIssueIdsUnique ==
    apiMatched =>
        \A i \in DOMAIN apiIssues : \A j \in DOMAIN apiIssues :
            (/\ i # j
             /\ apiIssues[i].id[1] \in {"SEMANTIC-API-001", "SEMANTIC-API-002",
                                         "SEMANTIC-API-003"}
             /\ apiIssues[j].id[1] \in {"SEMANTIC-API-001", "SEMANTIC-API-002",
                                         "SEMANTIC-API-003"})
                => apiIssues[i].id # apiIssues[j].id

\* Two issues of two calls of match_parameters carry the same id.
C25_SameIdTwice ==
    /\ apiMatched
    /\ Len(ExtractCodeEndpoints(codeStructure)) = 2
    /\ \E i \in DOMAIN apiIssues : \E j \in DOMAIN apiIssues :
           /\ i < j
           /\ apiIssues[i].id = <<"COMPLETENESS-PARAM-001", 1>>
           /\ apiIssues[j].id = <<"COMPLETENESS-PARAM-001", 1>>


\* C26: a report of the status VALID has no issues and no corrections, in
\* the code-aware flow and in the project flow as after validate alone.
C26_ValidHasNoIssues ==
    (Returned(report) /\ report.status = "VALID")
        => report.issues = <<>> /\ report.corrections = <<>>

\* What the code does hold to: the same for the reports of a project.
C26_ValidProjectHasNoIssues ==
    (ProjectReturned /\ report.status = "VALID")
        => report.issues = <<>> /\ report.corrections = <<>>

\* The code-aware flow returns VALID with the matcher's COMPLETENESS issue of
\* an undocumented method in the report.
C26_ValidWithCompletenessIssue ==
    /\ Returned(report)
    /\ request = "validate-with-code"
    /\ allIssues = <<>>
    /\ report.status = "VALID"
    /\ report.issues = <<Issue("COMPLETENESS-METHOD-001", 1, "COMPLETENESS")>>


\* C27: in a returned report total_issues is the number of the issues plus
\* the number of the corrections, and corrected_issues is the number of the
\* corrections, also after the matcher's issues were added.
C27_SummaryCountsEntries ==
    Returned(report) =>
        /\ report.summary.total_issues = Len(report.issues) + Len(report.corrections)
        /\ report.summary.corrected_issues = Len(report.corrections)

C27_Witness ==
    /\ Returned(report)
    /\ request = "validate-with-code"
    /\ Len(matcherIssues) = 2
    /\ Len(report.corrections) = 1
    /\ Len(report.issues) = 4
    /\ report.summary.total_issues = 5
    /\ report.summary.corrected_issues = 1


\* The documents that _find_matching_doc resolved for some code file.
ResolvedDocs ==
    {FindMatchingDoc(codeStructures[c], docStructures).doc : c \in DOMAIN codeStructures}
        \ {0}

\* C28: in a project run a document that was resolved as the documentation
\* of some code file is not also reported as describing a class that is
\* absent from the code.
C28_ResolvedDocumentNotOrphan ==
    ProjectReturned => \A d \in ResolvedDocs : ClassMissingIssues(d) = {}

\* What holds: a document resolved by its class name (Stage 1) is not
\* reported as describing an absent class.
C28_Stage1DocumentNotOrphan ==
    ProjectReturned =>
        \A c \in DOMAIN codeStructures :
            FindMatchingDoc(codeStructures[c], docStructures).stage = 1
                => ClassMissingIssues(FindMatchingDoc(codeStructures[c], docStructures).doc) = {}

C28_ResolvedByFileNameAndOrphan ==
    /\ ProjectReturned
    /\ Len(codeStructures) = 1
    /\ FindMatchingDoc(codeStructures[1], docStructures) = Found(2, 1)
    /\ ExtractClassName(docStructures[1]) = "Bar"
    /\ ClassMissingIssues(1) # {}


\* validate_syntax found nothing in the raw text, and validate ran on the
\* parsed document.
RawTextClean == uploadResponse.detail \in {"json", "summary", "format"}

\* C29: when the validator reports no issue on the raw text of a document,
\* validate on the document parsed from that text reports no issue either;
\* here with a network that answers both of them alike.
C29_CleanRawTextCleanReport ==
    (RawTextClean /\ parserNetwork = network)
        => report.issues = <<>> /\ report.corrections = <<>>

\* What holds: the same, for a text whose first line is the title.
C29_TitleFirstCleanReport ==
    (RawTextClean /\ parserNetwork = network /\ upload # <<>>
        /\ upload[1] = Heading(1, "Guide"))
        => report.issues = <<>> /\ report.corrections = <<>>

C29_DeepHeadingBeforeTitle ==
    /\ uploadResponse = Answer(200, "json")
    /\ upload = <<Heading(3, "Deep"), Heading(1, "Guide")>>
    /\ report.status = "INVALID"
    /\ allIssues = <<SyntaxIssue("SYNTAX-HEADER-LEVEL", 3)>>

\* The call passed the connection, the access and the format checks.
ChecksPassed == sendState \in {"loop", "returned", "Exception"} \/
    (sendState = "ConnectionError" /\ metrics.retries > 0)

\* C30: for every max_retries a call of send_message that passed the checks
\* returns only after exactly one acknowledged send of the message, and
\* raises ConnectionError only after max_retries failed attempts.
C30_ReturnsOnlyAfterAcknowledgedSend ==
    /\ sendState = "returned" => acknowledged = 1
    /\ (sendState = "ConnectionError" /\ ChecksPassed)
           => (metrics.retries = max_retries /\ acknowledged = 0)

\* What holds: the same for max_retries of 1 or more.
C30_PositiveRetriesReturnAfterAcknowledgedSend ==
    max_retries >= 1 =>
        /\ sendState = "returned" => acknowledged = 1
        /\ (sendState = "ConnectionError" /\ ChecksPassed)
               => (metrics.retries = max_retries /\ acknowledged = 0)

C30_ReturnedWithoutSend ==
    /\ sendState = "returned"
    /\ max_retries = 0
    /\ acknowledged = 0
    /\ delivered = 0
    /\ metrics = NoMetrics

C30_AllAttemptsFailed ==
    /\ sendState = "ConnectionError"
    /\ max_retries = MaxRetries
    /\ metrics.retries = MaxRetries
    /\ metrics.errors = 1

====
